---- MODULE Spec2Model ----
(***************************************************************************)
(* A state-machine model of the AutoRedL turret controller:                *)
(*   - LaserController  (src/src/laser/laser_controller.py)                *)
(*   - ServoController  (src/src/servo/servo_controller.py)                *)
(*   - TargetTracker    (src/src/tracking/target_tracker.py)               *)
(* Time is a discrete clock `now`.  The code inside a `with self.lock:`    *)
(* block is modelled statement by statement; it takes no model time.       *)
(***************************************************************************)
EXTENDS Integers, Sequences, FiniteSets, TLC

VARIABLES
    now,             \* time.time(), in model time units
    \* ---- LaserController fields
    is_on,           \* self.is_on
    is_initialized,  \* self.is_initialized
    last_on_time,    \* self.last_on_time
    safety_running,  \* self.safety_running
    laser_lock,      \* self.lock: "none" or the thread holding it
    pin,             \* level of the emitter's enable pin: 0 = LOW, 1 = HIGH
    \* ---- threads using the LaserController
    lpc,             \* per calling thread: position inside a LaserController call
    entry,           \* per calling thread: <<is_on, pin, last_on_time>> seen when the lock was taken
    releasing,       \* the main thread is inside LaserController.release()
    wd_pc,           \* position of the safety_monitor thread
    wd_wake,         \* time at which the watchdog's time.sleep(0.1) ends
    \* ---- ServoController fields (angles in 1/Scale degree)
    current_pan, current_tilt,
    target_pan, target_tilt,
    pan_min, pan_max, tilt_min, tilt_max,
    pan_pid, tilt_pid,   \* PIDController: [last_error, integral, last_time]
    running,             \* self.running
    servo_initialized,   \* ServoController.is_initialized
    servo_lock,          \* ServoController.lock: "none" or the thread holding it
    pwm_pan, pwm_tilt,   \* duty cycle last given to pan_pwm / tilt_pwm
    pid_clock,           \* time.time() as the PID controllers read it, in ms
    \* ---- threads using the ServoController
    boot,                \* how far AutoRedLSystem.initialize() has got with the servo
    spc,                 \* per calling thread: position inside a ServoController call
    arg,                 \* per calling thread: the (pan, tilt) of its set_target_position call
    via_center,          \* per calling thread: the call was made by center_servos()
    sentry,              \* per calling thread: the stored target seen when the lock was taken
    sl_arg,              \* the arguments of the set_limits call in progress
    ctl_pc,              \* position of the control_loop thread
    ctl_local,           \* control_loop's locals: the errors and the PID outputs
    \* ---- history variables of the servo
    ticks,               \* control ticks begun
    set_calls,           \* set_target_position calls begun
    call_id,             \* per calling thread: the number of its call in progress
    target_written,      \* some set_target_position call has stored a target
    pan_ver, tilt_ver,   \* which tick wrote current_pan / current_tilt last, and how far
    tpan_by, ttilt_by,   \* which call wrote target_pan / target_tilt last
    \* ---- TargetTracker fields (a detection is its number in Boxes, None is 0)
    current_target,      \* self.current_target
    target_lost_time,    \* self.target_lost_time
    position_history,    \* self.position_history: a sequence of centers
    frame_width, frame_height,   \* self.frame_width, self.frame_height
    \* ---- the last update_target call
    detections,          \* its argument
    returned,            \* the track it returned
    \* ---- history variables of the tracker
    last_seen,           \* time of the last update_target call that had detections (0: none since reset)
    last_call,           \* time of the last update_target call (0: none)
    popped,              \* the center position_history.pop(0) removed in the last update_target call (<<>>: none)
    \* ---- the get_servo_angles call just made, if the last tracker call was one
    servo_angles,        \* [called, max_pan, max_tilt, pan, tilt], angles in 1/Scale degree
    \* ---- a PIDController on its own
    pid,                 \* [last_error, integral, last_time]
    pid_now,             \* time.time() as it reads it, in ms
    pid_ret,             \* its last call: [op, error, out]
    pid_updates,         \* update calls made
    \* ---- AutoRedLSystem (src/main.py)
    rpc,                 \* position of the main thread in initialize() and run()
    sys_running,         \* self.running
    frame_count,         \* frame_count of run()
    in_handler,          \* shutdown() is running as the signal handler
    sd_log,              \* history: the steps the current shutdown() has begun, in order
    release_calls,       \* history: how many times each controller's release() was entered
    resume,              \* the frame of the main thread that the signal handler interrupted
    \* ---- SerialInterface fields
    is_connected,        \* self.is_connected
    ser_running,         \* self.running
    conn_open,           \* self.serial_conn.is_open
    write_queue,         \* self.write_queue: the messages waiting, oldest first
    \* ---- the stream and the threads of the SerialInterface
    wire,                \* the messages written to the stream, in order
    flushed,             \* how many of them have been flushed
    wr_pc, wr_data,      \* write_loop: its position and the message it has taken
    rd_pc,               \* read_loop / process_command / callback: position of the reader
    rd_line,             \* the line handed to process_command
    rd_cmd,              \* [command, params] as process_command parsed them
    rd_result,           \* the callback's return value
    dc_pc,               \* disconnect(): position of the main thread
    \* ---- history variables of the SerialInterface
    lines_read,          \* lines handed to process_command
    accepted,            \* messages put on the queue so far (a message's id is its rank)
    status_sent,         \* send_status calls made
    rd_log,              \* the process_command call in progress or just finished
    rd_snap              \* get_target_info: the tracker state its first read saw, and whether each later read saw the same

laserVars == <<is_on, is_initialized, last_on_time, safety_running, laser_lock, pin,
               lpc, entry, releasing, wd_pc, wd_wake>>

servoVars == <<current_pan, current_tilt, target_pan, target_tilt,
               pan_min, pan_max, tilt_min, tilt_max, pan_pid, tilt_pid,
               running, servo_initialized, servo_lock, pwm_pan, pwm_tilt, pid_clock,
               boot, spc, arg, via_center, sentry, sl_arg, ctl_pc, ctl_local,
               ticks, set_calls, call_id, target_written,
               pan_ver, tilt_ver, tpan_by, ttilt_by>>

trackerVars == <<current_target, target_lost_time, position_history,
                 frame_width, frame_height,
                 detections, returned, last_seen, last_call, popped, servo_angles>>

pidVars == <<pid, pid_now, pid_ret, pid_updates>>

orchVars == <<rpc, sys_running, frame_count, in_handler, sd_log, release_calls, resume>>

serialVars == <<is_connected, ser_running, conn_open, write_queue, wire, flushed,
                wr_pc, wr_data, rd_pc, rd_line, rd_cmd, rd_result, dc_pc,
                lines_read, accepted, status_sent, rd_snap, rd_log>>

vars == <<now, laserVars, servoVars, trackerVars, pidVars, orchVars, serialVars>>

nonLaser == <<servoVars, trackerVars, pidVars, orchVars, serialVars>>

nonServo == <<now, laserVars, trackerVars, pidVars, orchVars, serialVars>>

nonTracker == <<laserVars, servoVars, pidVars, orchVars, serialVars>>

nonPid == <<now, laserVars, servoVars, trackerVars, orchVars, serialVars>>

nonOrch == <<laserVars, servoVars, trackerVars, pidVars, serialVars>>

(***************************************************************************)
(* Bounds of the model (time is scaled: one unit is half a watchdog        *)
(* period with the values below).                                          *)
(***************************************************************************)
MaxTime == 8          \* the clock stops advancing here
SafetyTimeout == 3    \* safety_timeout, in model time units
WatchdogPeriod == 2   \* the watchdog's time.sleep(0.1), in model time units

LOW == 0
HIGH == 1

\* The threads that call into the controllers: the orchestrator's main thread
\* and the telemetry reader thread that dispatches LASER / STOP / SERVO.
Threads == {"main", "reader"}

NoEntry == <<>>

(***************************************************************************)
(*                          LaserController                                *)
(***************************************************************************)
LaserInit ==
    /\ is_on = FALSE
    /\ is_initialized = FALSE
    /\ last_on_time = 0
    /\ safety_running = FALSE
    /\ laser_lock = "none"
    /\ pin = LOW
    /\ lpc = [t \in Threads |-> "idle"]
    /\ entry = [t \in Threads |-> NoEntry]
    /\ releasing = FALSE
    /\ wd_pc = "off"
    /\ wd_wake = 0

\* with self.lock: entering the block
LockFree == laser_lock = "none"

Acquire(t, next) ==
    /\ LockFree
    /\ laser_lock' = t
    /\ lpc' = [lpc EXCEPT ![t] = next]
    /\ entry' = [entry EXCEPT ![t] = <<is_on, pin, last_on_time>>]

\* leaving the with block and returning from the call
\* (release() calls turn_off(): that call returns into release)
ReleaseAndReturn(t) ==
    /\ laser_lock' = "none"
    /\ lpc' = [lpc EXCEPT ![t] = IF t = "main" /\ releasing THEN "rel_cleanup" ELSE "idle"]
    /\ entry' = [entry EXCEPT ![t] = NoEntry]

\* initialize(): GPIO setup, output LOW, start the watchdog thread
LaserInitialize ==
    /\ lpc["main"] = "idle"
    /\ wd_pc = "off"
    /\ ~is_initialized
    /\ pin' = LOW
    /\ safety_running' = TRUE
    /\ wd_pc' = "loop"
    /\ is_initialized' = TRUE
    /\ UNCHANGED <<nonLaser, now, releasing, is_on, last_on_time, laser_lock, lpc, entry, wd_wake>>

\* ---- turn_on
TurnOnCall(t) ==
    /\ lpc[t] = "idle"
    /\ lpc' = [lpc EXCEPT ![t] = IF is_initialized THEN "on_wait" ELSE "idle"]
    /\ UNCHANGED <<nonLaser, now, releasing, is_on, is_initialized, last_on_time, safety_running,
                   laser_lock, pin, entry, wd_pc, wd_wake>>

TurnOnAcquire(t) ==
    /\ lpc[t] = "on_wait"
    /\ Acquire(t, "on_check")
    /\ UNCHANGED <<nonLaser, now, releasing, is_on, is_initialized, last_on_time, safety_running,
                   pin, wd_pc, wd_wake>>

\* (variant: turn_on without the test of is_on)
TurnOnCheck_NoTest(t) ==
    /\ lpc[t] = "on_check"
    /\ lpc' = [lpc EXCEPT ![t] = "on_high"]
    /\ UNCHANGED <<nonLaser, now, releasing, is_on, is_initialized, last_on_time, safety_running,
                   laser_lock, pin, entry, wd_pc, wd_wake>>

TurnOnCheck(t) ==
    /\ lpc[t] = "on_check"
    /\ IF ~is_on
          THEN /\ lpc' = [lpc EXCEPT ![t] = "on_high"]
               /\ UNCHANGED <<laser_lock, entry>>
          ELSE ReleaseAndReturn(t)
    /\ UNCHANGED <<nonLaser, now, releasing, is_on, is_initialized, last_on_time, safety_running,
                   pin, wd_pc, wd_wake>>

TurnOnHigh(t) ==
    /\ lpc[t] = "on_high"
    /\ pin' = HIGH
    /\ lpc' = [lpc EXCEPT ![t] = "on_flag"]
    /\ UNCHANGED <<nonLaser, now, releasing, is_on, is_initialized, last_on_time, safety_running,
                   laser_lock, entry, wd_pc, wd_wake>>

TurnOnFlag(t) ==
    /\ lpc[t] = "on_flag"
    /\ is_on' = TRUE
    /\ lpc' = [lpc EXCEPT ![t] = "on_stamp"]
    /\ UNCHANGED <<nonLaser, now, releasing, is_initialized, last_on_time, safety_running,
                   laser_lock, pin, entry, wd_pc, wd_wake>>

\* (variant: a turn_on that finds the emitter off does not restart the window)
TurnOnStamp_Stale(t) ==
    /\ lpc[t] = "on_stamp"
    /\ ReleaseAndReturn(t)
    /\ UNCHANGED <<nonLaser, now, releasing, is_on, is_initialized, last_on_time, safety_running, pin,
                   wd_pc, wd_wake>>

TurnOnStamp(t) ==
    /\ lpc[t] = "on_stamp"
    /\ last_on_time' = now
    /\ ReleaseAndReturn(t)
    /\ UNCHANGED <<nonLaser, now, releasing, is_on, is_initialized, safety_running, pin, wd_pc, wd_wake>>

\* ---- turn_off
TurnOffCall(t) ==
    /\ lpc[t] = "idle"
    /\ lpc' = [lpc EXCEPT ![t] = IF is_initialized THEN "off_wait" ELSE "idle"]
    /\ UNCHANGED <<nonLaser, now, releasing, is_on, is_initialized, last_on_time, safety_running,
                   laser_lock, pin, entry, wd_pc, wd_wake>>

TurnOffAcquire(t) ==
    /\ lpc[t] = "off_wait"
    /\ Acquire(t, "off_check")
    /\ UNCHANGED <<nonLaser, now, releasing, is_on, is_initialized, last_on_time, safety_running,
                   pin, wd_pc, wd_wake>>

TurnOffCheck(t) ==
    /\ lpc[t] = "off_check"
    /\ IF is_on
          THEN /\ lpc' = [lpc EXCEPT ![t] = "off_low"]
               /\ UNCHANGED <<laser_lock, entry>>
          ELSE ReleaseAndReturn(t)
    /\ UNCHANGED <<nonLaser, now, releasing, is_on, is_initialized, last_on_time, safety_running,
                   pin, wd_pc, wd_wake>>

TurnOffLow(t) ==
    /\ lpc[t] = "off_low"
    /\ pin' = LOW
    /\ lpc' = [lpc EXCEPT ![t] = "off_clear"]
    /\ UNCHANGED <<nonLaser, now, releasing, is_on, is_initialized, last_on_time, safety_running,
                   laser_lock, entry, wd_pc, wd_wake>>

TurnOffClear(t) ==
    /\ lpc[t] = "off_clear"
    /\ is_on' = FALSE
    /\ ReleaseAndReturn(t)
    /\ UNCHANGED <<nonLaser, now, releasing, is_initialized, last_on_time, safety_running, pin, wd_pc, wd_wake>>

\* ---- emergency_stop (no is_initialized test)
EStopCall(t) ==
    /\ lpc[t] = "idle"
    /\ lpc' = [lpc EXCEPT ![t] = "es_wait"]
    /\ UNCHANGED <<nonLaser, now, releasing, is_on, is_initialized, last_on_time, safety_running,
                   laser_lock, pin, entry, wd_pc, wd_wake>>

EStopAcquire(t) ==
    /\ lpc[t] = "es_wait"
    /\ Acquire(t, "es_low")
    /\ UNCHANGED <<nonLaser, now, releasing, is_on, is_initialized, last_on_time, safety_running,
                   pin, wd_pc, wd_wake>>

EStopLow(t) ==
    /\ lpc[t] = "es_low"
    /\ pin' = LOW
    /\ lpc' = [lpc EXCEPT ![t] = "es_clear"]
    /\ UNCHANGED <<nonLaser, now, releasing, is_on, is_initialized, last_on_time, safety_running,
                   laser_lock, entry, wd_pc, wd_wake>>

EStopClear(t) ==
    /\ lpc[t] = "es_clear"
    /\ is_on' = FALSE
    /\ ReleaseAndReturn(t)
    /\ UNCHANGED <<nonLaser, now, releasing, is_initialized, last_on_time, safety_running, pin, wd_pc, wd_wake>>

\* ---- safety_monitor (the watchdog thread)
\* (variant: the subtraction of the timeout test reversed)
WatchdogExpired_Reversed == is_on /\ (last_on_time - now) > SafetyTimeout

\* the timeout test of line 84
WatchdogExpired == is_on /\ (now - last_on_time) > SafetyTimeout

\* while self.safety_running:
WdLoop ==
    /\ wd_pc = "loop"
    /\ wd_pc' = IF safety_running THEN "wait" ELSE "done"
    /\ UNCHANGED <<nonLaser, now, releasing, is_on, is_initialized, last_on_time, safety_running,
                   laser_lock, pin, lpc, entry, wd_wake>>

\* (variant: the watchdog's check without the lock)
WdAcquire_NoLock ==
    /\ wd_pc = "wait"
    /\ wd_pc' = "check"
    /\ UNCHANGED <<nonLaser, now, releasing, is_on, is_initialized, last_on_time, safety_running,
                   laser_lock, pin, lpc, entry, wd_wake>>

WdAcquire ==
    /\ wd_pc = "wait"
    /\ LockFree
    /\ laser_lock' = "wd"
    /\ wd_pc' = "check"
    /\ UNCHANGED <<nonLaser, now, releasing, is_on, is_initialized, last_on_time, safety_running,
                   pin, lpc, entry, wd_wake>>

\* (variant: time.sleep(0.1) indented into the with block)
WdReleaseAndSleep_InsideLock ==
    /\ laser_lock' = laser_lock
    /\ wd_pc' = "sleep"
    /\ wd_wake' = now + WatchdogPeriod

\* the lock is released at the end of the with block, then time.sleep(0.1)
WdReleaseAndSleep ==
    /\ laser_lock' = "none"
    /\ wd_pc' = "sleep"
    /\ wd_wake' = now + WatchdogPeriod

WdCheck ==
    /\ wd_pc = "check"
    /\ IF WatchdogExpired
          THEN /\ wd_pc' = "low"
               /\ UNCHANGED <<laser_lock, wd_wake>>
          ELSE WdReleaseAndSleep
    /\ UNCHANGED <<nonLaser, now, releasing, is_on, is_initialized, last_on_time, safety_running,
                   pin, lpc, entry>>

WdLow ==
    /\ wd_pc = "low"
    /\ pin' = LOW
    /\ wd_pc' = "clear"
    /\ UNCHANGED <<nonLaser, now, releasing, is_on, is_initialized, last_on_time, safety_running,
                   laser_lock, lpc, entry, wd_wake>>

WdClear ==
    /\ wd_pc = "clear"
    /\ is_on' = FALSE
    /\ WdReleaseAndSleep
    /\ UNCHANGED <<nonLaser, now, releasing, is_initialized, last_on_time, safety_running, pin, lpc, entry>>

WdWake ==
    /\ wd_pc = "sleep"
    /\ now >= wd_wake
    /\ wd_pc' = "loop"
    /\ UNCHANGED <<nonLaser, now, releasing, is_on, is_initialized, last_on_time, safety_running,
                   laser_lock, pin, lpc, entry, wd_wake>>

\* The watchdog is asleep (or not running): time may pass.  Code inside a
\* with block and the watchdog's check take no model time.
WatchdogIdle ==
    \/ wd_pc \in {"off", "done", "dead"}
    \/ wd_pc = "sleep" /\ now < wd_wake

LaserTick ==
    /\ now < MaxTime
    /\ LockFree
    /\ WatchdogIdle
    /\ now' = now + 1
    /\ UNCHANGED <<nonLaser, laserVars>>

\* ---- release() (the main thread, at shutdown)
StartRelease ==
    /\ lpc["main"] = "idle"
    /\ safety_running' = FALSE
    /\ releasing' = TRUE
    /\ lpc' = [lpc EXCEPT !["main"] = "rel_join"]
    /\ UNCHANGED <<is_on, is_initialized, last_on_time, laser_lock, pin, entry, wd_pc, wd_wake>>

ReleaseCall == StartRelease /\ UNCHANGED <<nonLaser, now>>

\* safety_thread.join(timeout=1.0), then self.turn_off(), whose first test is
\* is_initialized.  The watchdog leaves its loop within one sleep period,
\* which is shorter than the join's timeout.
ReleaseJoin ==
    /\ lpc["main"] = "rel_join"
    /\ wd_pc \in {"off", "done", "dead"}
    /\ lpc' = [lpc EXCEPT !["main"] = IF is_initialized THEN "off_wait" ELSE "rel_cleanup"]
    /\ UNCHANGED <<nonLaser, now, releasing, is_on, is_initialized, last_on_time, safety_running,
                   laser_lock, pin, entry, wd_pc, wd_wake>>

\* GPIO.cleanup(): the channel is no longer driven
ReleaseCleanup ==
    /\ lpc["main"] = "rel_cleanup"
    /\ pin' = LOW
    /\ lpc' = [lpc EXCEPT !["main"] = "rel_flag"]
    /\ UNCHANGED <<nonLaser, now, releasing, is_on, is_initialized, last_on_time, safety_running,
                   laser_lock, entry, wd_pc, wd_wake>>

ReleaseFlag ==
    /\ lpc["main"] = "rel_flag"
    /\ is_initialized' = FALSE
    /\ releasing' = FALSE
    /\ lpc' = [lpc EXCEPT !["main"] = "idle"]
    /\ UNCHANGED <<nonLaser, now, is_on, last_on_time, safety_running, laser_lock, pin,
                   entry, wd_pc, wd_wake>>

ReleaseStep == ReleaseCall \/ ReleaseJoin \/ ReleaseCleanup \/ ReleaseFlag

\* ---- a hardware write that fails: GPIO.output raises.  The with block
\* releases the lock and the exception leaves the method.
RaiseOutOfCall(t) ==
    /\ laser_lock' = "none"
    /\ lpc' = [lpc EXCEPT ![t] = "idle"]
    /\ entry' = [entry EXCEPT ![t] = NoEntry]
    /\ releasing' = IF t = "main" THEN FALSE ELSE releasing
    /\ UNCHANGED <<nonLaser, now, is_on, is_initialized, last_on_time, safety_running,
                   pin, wd_pc, wd_wake>>

TurnOnHighFault(t) == lpc[t] = "on_high" /\ RaiseOutOfCall(t)

TurnOffLowFault(t) == lpc[t] = "off_low" /\ RaiseOutOfCall(t)

EStopLowFault(t) == lpc[t] = "es_low" /\ RaiseOutOfCall(t)

\* safety_monitor has no try/except: the exception ends the thread
WdLowFault ==
    /\ wd_pc = "low"
    /\ laser_lock' = "none"
    /\ wd_pc' = "dead"
    /\ UNCHANGED <<nonLaser, now, releasing, is_on, is_initialized, last_on_time, safety_running,
                   pin, lpc, entry, wd_wake>>

LaserFault ==
    \/ \E t \in Threads : TurnOnHighFault(t) \/ TurnOffLowFault(t) \/ EStopLowFault(t)
    \/ WdLowFault

WatchdogStep == WdLoop \/ WdAcquire \/ WdCheck \/ WdLow \/ WdClear \/ WdWake

\* the steps that continue a call already begun
LaserCallStep(t) ==
    \/ TurnOnAcquire(t) \/ TurnOnCheck(t) \/ TurnOnHigh(t) \/ TurnOnFlag(t) \/ TurnOnStamp(t)
    \/ TurnOffAcquire(t) \/ TurnOffCheck(t) \/ TurnOffLow(t) \/ TurnOffClear(t)
    \/ EStopAcquire(t) \/ EStopLow(t) \/ EStopClear(t)

LaserCall(t) == TurnOnCall(t) \/ TurnOffCall(t) \/ EStopCall(t)

LaserNext ==
    \/ LaserInitialize
    \/ \E t \in Threads : LaserCall(t)
    \/ \E t \in Threads : LaserCallStep(t)
    \/ WatchdogStep
    \/ LaserTick

(***************************************************************************)
(*                          ServoController                                *)
(* Angles are fixed-point numbers, Scale units to the degree; the PID      *)
(* clock is in milliseconds.  Divisions round towards zero.                *)
(***************************************************************************)
Scale == 100

Deg(d) == d * Scale

MaxTicks == 2       \* control ticks in a behaviour
MaxSetCalls == 2    \* set_target_position calls in a behaviour

\* PIDController.__init__ defaults: gains in tenths, max_output in degrees
Kp10 == 8
Ki10 == 1
Kd10 == 2
max_output == 10

frequency == 50     \* PWM frequency, Hz
TickMs == 20        \* time.sleep(0.02)
FaultSleepMs == 100 \* time.sleep(0.1) after an exception

\* ServoController.__init__: pan_min, pan_max = -90, 90; tilt_min, tilt_max = -45, 45
DefaultLimits == [pan_min |-> Deg(-90), pan_max |-> Deg(90),
                  tilt_min |-> Deg(-45), tilt_max |-> Deg(45)]

\* the limits a configuration may give to set_limits
LimitConfigs ==
    { DefaultLimits,
      [pan_min |-> Deg(20), pan_max |-> Deg(60), tilt_min |-> Deg(5), tilt_max |-> Deg(30)] }

\* the (pan, tilt) requests callers make
TargetInputs ==
    { <<Deg(-200), Deg(100)>>, <<Deg(1000), Deg(-1000)>> }

\* Python's min(a, b) and max(a, b): the first argument unless the second is
\* strictly smaller (larger)
Min2(a, b) == IF b < a THEN b ELSE a

Max2(a, b) == IF b > a THEN b ELSE a

\* (variant: the lower limit forgotten)
Clamp_NoLower(lo, hi, v) == Min2(hi, v)

\* max(lo, min(hi, v))
Clamp(lo, hi, v) == Max2(lo, Min2(hi, v))

\* division rounding towards zero
Div(a, b) == IF a >= 0 THEN a \div b ELSE -((-a) \div b)

\* angle_to_duty, in 1/1000 percent:
\* pulse_width = 1.5 + (angle / 90.0) * 0.5;  duty = pulse_width / (1000 / frequency) * 100
AngleToDuty(angle) ==
    LET pulse_us == 1500 + Div(angle * 500, 90 * Scale)   \* microseconds
    IN  Div(pulse_us * frequency, 10)

NewPid == [last_error |-> 0, integral |-> 0, last_time |-> 0]

\* (variant: the sum is returned as it is)
PidCompute_Unclamped(c, error, t) ==
    LET dt == t - c.last_time
        integral == c.integral + error * dt
    IN  [out |-> Div(Kp10 * error, 10) + Div(Ki10 * integral, 10 * 1000)
                   + Div(Kd10 * (error - c.last_error) * 1000, 10 * dt),
         pid |-> [last_error |-> error, integral |-> integral, last_time |-> t]]

\* PIDController.update, lines 43-53 (dt > 0): [out, pid]
PidCompute(c, error, t) ==
    LET dt           == t - c.last_time
        integral     == c.integral + error * dt          \* angle * ms
        proportional == Div(Kp10 * error, 10)
        integ        == Div(Ki10 * integral, 10 * 1000)
        derivative   == Div(Kd10 * (error - c.last_error) * 1000, 10 * dt)
        output       == Clamp(-Deg(max_output), Deg(max_output),
                              proportional + integ + derivative)
    IN  [out |-> output,
         pid |-> [last_error |-> error, integral |-> integral, last_time |-> t]]

\* (variant: last_error and last_time are stored before dt is tested)
PidUpdate_StoresFirst(c, error, t) ==
    IF t - c.last_time <= 0
       THEN [out |-> 0, pid |-> [c EXCEPT !.last_error = error, !.last_time = t]]
       ELSE PidCompute(c, error, t)

\* PIDController.update(error) at clock value t, on the controller state c:
\* [out, pid]
PidUpdate(c, error, t) ==
    IF t - c.last_time <= 0
       THEN [out |-> 0, pid |-> c]
       ELSE PidCompute(c, error, t)

\* ---- a PIDController exercised on its own
MaxPidUpdates == 3   \* update calls in a behaviour
MaxPidClock == 60    \* the clock, in ms, stops advancing here

\* the errors update is called with, in 1/Scale degree
PidErrors == { Deg(-180), 0, Deg(1), Deg(180) }

\* PIDController.__init__, at clock value t
PidInit ==
    /\ pid_now = TickMs
    /\ pid = [NewPid EXCEPT !.last_time = pid_now]
    /\ pid_ret = [op |-> "none", error |-> 0, out |-> 0]
    /\ pid_updates = 0

\* update(error)
PidUpdateCall ==
    /\ pid_updates < MaxPidUpdates
    /\ \E error \in PidErrors :
          LET r == PidUpdate(pid, error, pid_now)
          IN  /\ pid' = r.pid
              /\ pid_ret' = [op |-> "update", error |-> error, out |-> r.out]
    /\ pid_updates' = pid_updates + 1
    /\ UNCHANGED <<nonPid, pid_now>>

\* reset()
PidResetCall ==
    /\ pid' = [last_error |-> 0, integral |-> 0, last_time |-> pid_now]
    /\ pid_ret' = [op |-> "reset", error |-> 0, out |-> 0]
    /\ UNCHANGED <<nonPid, pid_now, pid_updates>>

\* time.time() moves on between calls ...
PidClockAdvance ==
    /\ pid_now + TickMs <= MaxPidClock
    /\ pid_now' = pid_now + TickMs
    /\ UNCHANGED <<nonPid, pid, pid_ret, pid_updates>>

\* ... or is set back (the wall clock is not monotonic)
PidClockSetBack ==
    /\ pid_now >= TickMs
    /\ pid_now' = pid_now - TickMs
    /\ UNCHANGED <<nonPid, pid, pid_ret, pid_updates>>

PidNext == PidUpdateCall \/ PidResetCall \/ PidClockAdvance \/ PidClockSetBack

ServoInit ==
    /\ current_pan = 0 /\ current_tilt = 0
    /\ target_pan = 0 /\ target_tilt = 0
    /\ pan_min = DefaultLimits.pan_min /\ pan_max = DefaultLimits.pan_max
    /\ tilt_min = DefaultLimits.tilt_min /\ tilt_max = DefaultLimits.tilt_max
    /\ pan_pid = NewPid /\ tilt_pid = NewPid
    /\ running = FALSE
    /\ servo_initialized = FALSE
    /\ servo_lock = "none"
    /\ pwm_pan = 0 /\ pwm_tilt = 0
    /\ pid_clock = 0
    /\ boot = "new"
    /\ spc = [t \in Threads |-> "idle"]
    /\ arg = [t \in Threads |-> <<0, 0>>]
    /\ via_center = [t \in Threads |-> FALSE]
    /\ sentry = [t \in Threads |-> <<0, 0>>]
    /\ sl_arg = DefaultLimits
    /\ ctl_pc = "off"
    /\ ctl_local = [pan_error |-> 0, tilt_error |-> 0, pan_output |-> 0, tilt_output |-> 0]
    /\ ticks = 0
    /\ set_calls = 0
    /\ call_id = [t \in Threads |-> 0]
    /\ target_written = FALSE
    /\ pan_ver = <<0, "final">> /\ tilt_ver = <<0, "final">>
    /\ tpan_by = 0 /\ ttilt_by = 0

\* what the calling threads leave alone
servoLoopVars == <<current_pan, current_tilt, pan_pid, tilt_pid, running, servo_initialized,
                   pwm_pan, pwm_tilt, pid_clock, ctl_pc, ctl_local, ticks,
                   pan_ver, tilt_ver>>

servoLimits == <<pan_min, pan_max, tilt_min, tilt_max>>

servoTarget == <<target_pan, target_tilt, tpan_by, ttilt_by, target_written>>

servoCallVars == <<spc, arg, via_center, sentry, sl_arg, set_calls, call_id>>

\* initialize(): start both PWM outputs at the centre duty, start control_loop.
\* The PID controllers were built some time before (their last_time).
ServoInitialize ==
    /\ boot = "new"
    /\ pid_clock' = pid_clock + TickMs
    /\ pwm_pan' = AngleToDuty(0)
    /\ pwm_tilt' = AngleToDuty(0)
    /\ running' = TRUE
    /\ ctl_pc' = "loop"
    /\ servo_initialized' = TRUE
    /\ boot' = "init"
    /\ UNCHANGED <<nonServo, current_pan, current_tilt, pan_pid, tilt_pid, servo_lock,
                   ctl_local, ticks, pan_ver, tilt_ver,
                   servoLimits, servoTarget, servoCallVars>>

\* ---- set_limits (AutoRedLSystem.initialize, right after servo.initialize();
\* no lock; two tuple assignments, their targets stored left to right)
SetLimitsCall ==
    /\ boot = "init"
    /\ spc["main"] = "idle"
    /\ \E cfg \in LimitConfigs : sl_arg' = cfg
    /\ spc' = [spc EXCEPT !["main"] = "sl_pan_min"]
    /\ boot' = "limits"
    /\ UNCHANGED <<nonServo, servoLoopVars, servoLimits, servoTarget, servo_lock,
                   arg, via_center, sentry, set_calls, call_id>>

SetLimitsPanMin ==
    /\ spc["main"] = "sl_pan_min"
    /\ pan_min' = sl_arg.pan_min
    /\ spc' = [spc EXCEPT !["main"] = "sl_pan_max"]
    /\ UNCHANGED <<nonServo, servoLoopVars, servoTarget, servo_lock, boot,
                   pan_max, tilt_min, tilt_max,
                   arg, via_center, sentry, sl_arg, set_calls, call_id>>

SetLimitsPanMax ==
    /\ spc["main"] = "sl_pan_max"
    /\ pan_max' = sl_arg.pan_max
    /\ spc' = [spc EXCEPT !["main"] = "sl_tilt_min"]
    /\ UNCHANGED <<nonServo, servoLoopVars, servoTarget, servo_lock, boot,
                   pan_min, tilt_min, tilt_max,
                   arg, via_center, sentry, sl_arg, set_calls, call_id>>

SetLimitsTiltMin ==
    /\ spc["main"] = "sl_tilt_min"
    /\ tilt_min' = sl_arg.tilt_min
    /\ spc' = [spc EXCEPT !["main"] = "sl_tilt_max"]
    /\ UNCHANGED <<nonServo, servoLoopVars, servoTarget, servo_lock, boot,
                   pan_min, pan_max, tilt_max,
                   arg, via_center, sentry, sl_arg, set_calls, call_id>>

SetLimitsTiltMax ==
    /\ spc["main"] = "sl_tilt_max"
    /\ tilt_max' = sl_arg.tilt_max
    /\ spc' = [spc EXCEPT !["main"] = "idle"]
    /\ UNCHANGED <<nonServo, servoLoopVars, servoTarget, servo_lock, boot,
                   pan_min, pan_max, tilt_min,
                   arg, via_center, sentry, sl_arg, set_calls, call_id>>

\* the telemetry channel is set up after set_limits: from here on the reader
\* thread dispatches commands, and the main thread issues target requests
SerialSetup ==
    /\ boot = "limits"
    /\ spc["main"] = "idle"
    /\ boot' = "run"
    /\ UNCHANGED <<nonServo, servoLoopVars, servoLimits, servoTarget, servo_lock,
                   servoCallVars>>

\* ---- set_target_position(pan, tilt)
BeginSetTarget(t, a, centre) ==
    /\ boot = "run"
    /\ spc[t] = "idle"
    /\ set_calls < MaxSetCalls
    /\ set_calls' = set_calls + 1
    /\ call_id' = [call_id EXCEPT ![t] = set_calls + 1]
    /\ arg' = [arg EXCEPT ![t] = a]
    /\ via_center' = [via_center EXCEPT ![t] = centre]
    /\ spc' = [spc EXCEPT ![t] = "st_wait"]
    /\ UNCHANGED <<nonServo, servoLoopVars, servoLimits, servoTarget, servo_lock, boot,
                   sentry, sl_arg>>

SetTargetCall(t) ==
    \E a \in TargetInputs \cup {<<target_pan, target_tilt>>} : BeginSetTarget(t, a, FALSE)

\* center_servos(): self.set_target_position(0, 0)
CenterCall(t) == BeginSetTarget(t, <<0, 0>>, TRUE)

SetTargetAcquire(t) ==
    /\ spc[t] = "st_wait"
    /\ servo_lock = "none"
    /\ servo_lock' = t
    /\ sentry' = [sentry EXCEPT ![t] = <<target_pan, target_tilt>>]
    /\ spc' = [spc EXCEPT ![t] = "st_pan"]
    /\ UNCHANGED <<nonServo, servoLoopVars, servoLimits, servoTarget, boot,
                   arg, via_center, sl_arg, set_calls, call_id>>

SetTargetPan(t) ==
    /\ spc[t] = "st_pan"
    /\ target_pan' = Clamp(pan_min, pan_max, arg[t][1])
    /\ tpan_by' = call_id[t]
    /\ spc' = [spc EXCEPT ![t] = "st_tilt"]
    /\ UNCHANGED <<nonServo, servoLoopVars, servoLimits, servo_lock, boot,
                   target_tilt, ttilt_by, target_written,
                   arg, via_center, sentry, sl_arg, set_calls, call_id>>

SetTargetTilt(t) ==
    /\ spc[t] = "st_tilt"
    /\ target_tilt' = Clamp(tilt_min, tilt_max, arg[t][2])
    /\ ttilt_by' = call_id[t]
    /\ target_written' = TRUE
    /\ servo_lock' = "none"
    /\ spc' = [spc EXCEPT ![t] = "idle"]
    /\ arg' = [arg EXCEPT ![t] = <<0, 0>>]
    /\ via_center' = [via_center EXCEPT ![t] = FALSE]
    /\ sentry' = [sentry EXCEPT ![t] = <<0, 0>>]
    /\ call_id' = [call_id EXCEPT ![t] = 0]
    /\ UNCHANGED <<nonServo, servoLoopVars, servoLimits, boot,
                   target_pan, tpan_by, sl_arg, set_calls>>

\* ---- get_current_position()
GetPosCall(t) ==
    /\ t = "reader"
    /\ boot = "run"
    /\ spc[t] = "idle"
    /\ spc' = [spc EXCEPT ![t] = "gp_wait"]
    /\ UNCHANGED <<nonServo, servoLoopVars, servoLimits, servoTarget, servo_lock, boot,
                   arg, via_center, sentry, sl_arg, set_calls, call_id>>

\* (variant: the with block entered without waiting for the lock)
GetPosAcquire_NoWait(t) ==
    /\ spc[t] = "gp_wait"
    /\ servo_lock' = t
    /\ spc' = [spc EXCEPT ![t] = "gp_read"]
    /\ UNCHANGED <<nonServo, servoLoopVars, servoLimits, servoTarget, boot,
                   arg, via_center, sentry, sl_arg, set_calls, call_id>>

GetPosAcquire(t) ==
    /\ spc[t] = "gp_wait"
    /\ servo_lock = "none"
    /\ servo_lock' = t
    /\ spc' = [spc EXCEPT ![t] = "gp_read"]
    /\ UNCHANGED <<nonServo, servoLoopVars, servoLimits, servoTarget, boot,
                   arg, via_center, sentry, sl_arg, set_calls, call_id>>

\* return self.current_pan, self.current_tilt
GetPosRead(t) ==
    /\ spc[t] = "gp_read"
    /\ servo_lock' = "none"
    /\ spc' = [spc EXCEPT ![t] = "idle"]
    /\ UNCHANGED <<nonServo, servoLoopVars, servoLimits, servoTarget, boot,
                   arg, via_center, sentry, sl_arg, set_calls, call_id>>

\* ---- control_loop (the control thread)
servoCtlFrame == <<nonServo, servoLimits, servoTarget, servoCallVars, boot,
                   running, servo_initialized>>

\* while self.running:
CtlLoop ==
    /\ ctl_pc = "loop"
    /\ ticks < MaxTicks
    /\ ctl_pc' = IF running THEN "wait" ELSE "done"
    /\ UNCHANGED <<servoCtlFrame, servo_lock, current_pan, current_tilt, pan_pid, tilt_pid,
                   pwm_pan, pwm_tilt, pid_clock, ctl_local, ticks, pan_ver, tilt_ver>>

CtlAcquire ==
    /\ ctl_pc = "wait"
    /\ servo_lock = "none"
    /\ servo_lock' = "ctl"
    /\ ctl_pc' = "compute"
    /\ UNCHANGED <<servoCtlFrame, current_pan, current_tilt, pan_pid, tilt_pid,
                   pwm_pan, pwm_tilt, pid_clock, ctl_local, ticks, pan_ver, tilt_ver>>

\* lines 128-132: the two errors, then the two PID updates
CtlCompute ==
    /\ ctl_pc = "compute"
    /\ LET pan_error  == target_pan - current_pan
           tilt_error == target_tilt - current_tilt
           p == PidUpdate(pan_pid, pan_error, pid_clock)
           q == PidUpdate(tilt_pid, tilt_error, pid_clock)
       IN  /\ pan_pid' = p.pid
           /\ tilt_pid' = q.pid
           /\ ctl_local' = [ctl_local EXCEPT !.pan_error = pan_error, !.tilt_error = tilt_error,
                                             !.pan_output = p.out, !.tilt_output = q.out]
    /\ ticks' = ticks + 1
    /\ ctl_pc' = "add_pan"
    /\ UNCHANGED <<servoCtlFrame, servo_lock, current_pan, current_tilt,
                   pwm_pan, pwm_tilt, pid_clock, pan_ver, tilt_ver>>

\* self.current_pan += pan_output
CtlAddPan ==
    /\ ctl_pc = "add_pan"
    /\ current_pan' = current_pan + ctl_local.pan_output
    /\ pan_ver' = <<ticks, "partial">>
    /\ ctl_pc' = "add_tilt"
    /\ UNCHANGED <<servoCtlFrame, servo_lock, current_tilt, pan_pid, tilt_pid,
                   pwm_pan, pwm_tilt, pid_clock, ctl_local, ticks, tilt_ver>>

\* self.current_tilt += tilt_output
CtlAddTilt ==
    /\ ctl_pc = "add_tilt"
    /\ current_tilt' = current_tilt + ctl_local.tilt_output
    /\ tilt_ver' = <<ticks, "partial">>
    /\ ctl_pc' = "clamp_pan"
    /\ UNCHANGED <<servoCtlFrame, servo_lock, current_pan, pan_pid, tilt_pid,
                   pwm_pan, pwm_tilt, pid_clock, ctl_local, ticks, pan_ver>>

\* line 137: current_pan clamped to the pan limits
CtlClampPan ==
    /\ ctl_pc = "clamp_pan"
    /\ current_pan' = Clamp(pan_min, pan_max, current_pan)
    /\ pan_ver' = <<ticks, "final">>
    /\ ctl_pc' = "clamp_tilt"
    /\ UNCHANGED <<servoCtlFrame, servo_lock, current_tilt, pan_pid, tilt_pid,
                   pwm_pan, pwm_tilt, pid_clock, ctl_local, ticks, tilt_ver>>

\* line 138: current_tilt clamped to the tilt limits
CtlClampTilt ==
    /\ ctl_pc = "clamp_tilt"
    /\ current_tilt' = Clamp(tilt_min, tilt_max, current_tilt)
    /\ tilt_ver' = <<ticks, "final">>
    /\ ctl_pc' = "pwm"
    /\ UNCHANGED <<servoCtlFrame, servo_lock, current_pan, pan_pid, tilt_pid,
                   pwm_pan, pwm_tilt, pid_clock, ctl_local, ticks, pan_ver>>

\* lines 140-144: both duty cycles written, the lock released, time.sleep(0.02)
CtlPwm ==
    /\ ctl_pc = "pwm"
    /\ pwm_pan' = AngleToDuty(current_pan)
    /\ pwm_tilt' = AngleToDuty(current_tilt)
    /\ servo_lock' = "none"
    /\ ctl_pc' = "sleep"
    /\ UNCHANGED <<servoCtlFrame, current_pan, current_tilt, pan_pid, tilt_pid,
                   pid_clock, ctl_local, ticks, pan_ver, tilt_ver>>

\* ChangeDutyCycle raises, on the pan write or on the tilt write: the with
\* block releases the lock, the except clause sleeps 0.1 s
CtlPwmFault ==
    /\ ctl_pc = "pwm"
    /\ \/ UNCHANGED <<pwm_pan, pwm_tilt>>
       \/ pwm_pan' = AngleToDuty(current_pan) /\ UNCHANGED pwm_tilt
    /\ servo_lock' = "none"
    /\ ctl_pc' = "sleep_fault"
    /\ UNCHANGED <<servoCtlFrame, current_pan, current_tilt, pan_pid, tilt_pid,
                   pid_clock, ctl_local, ticks, pan_ver, tilt_ver>>

\* the sleep ends
CtlWake ==
    /\ ctl_pc \in {"sleep", "sleep_fault"}
    /\ pid_clock' = pid_clock + (IF ctl_pc = "sleep" THEN TickMs ELSE FaultSleepMs)
    /\ ctl_pc' = "loop"
    /\ UNCHANGED <<servoCtlFrame, servo_lock, current_pan, current_tilt, pan_pid, tilt_pid,
                   pwm_pan, pwm_tilt, ctl_local, ticks, pan_ver, tilt_ver>>

ControlStep ==
    \/ CtlLoop \/ CtlAcquire \/ CtlCompute \/ CtlAddPan \/ CtlAddTilt
    \/ CtlClampPan \/ CtlClampTilt
    \/ CtlPwm \/ CtlWake

\* ---- the control loop tick by tick, under a target that is held
\* One iteration of control_loop (lines 126-144) taken at once, one 20 ms
\* period after the one before.  update() uses the clock only through
\* dt = current_time - last_time, so the clock is read from the previous
\* tick: last_time stays where it was and pid_clock one period after it.
CtlTick ==
    /\ ctl_pc = "loop"
    /\ running
    /\ servo_lock = "none"
    /\ LET pan_error  == target_pan - current_pan
           tilt_error == target_tilt - current_tilt
           p == PidUpdate(pan_pid, pan_error, pid_clock)
           q == PidUpdate(tilt_pid, tilt_error, pid_clock)
           pan  == Clamp(pan_min, pan_max, current_pan + p.out)
           tilt == Clamp(tilt_min, tilt_max, current_tilt + q.out)
       IN  /\ pan_pid' = [p.pid EXCEPT !.last_time = pan_pid.last_time]
           /\ tilt_pid' = [q.pid EXCEPT !.last_time = tilt_pid.last_time]
           /\ ctl_local' = [ctl_local EXCEPT !.pan_error = pan_error, !.tilt_error = tilt_error,
                                             !.pan_output = p.out, !.tilt_output = q.out]
           /\ current_pan' = pan
           /\ current_tilt' = tilt
           /\ pwm_pan' = AngleToDuty(pan)
           /\ pwm_tilt' = AngleToDuty(tilt)
    /\ pan_ver' = <<ticks, "final">>
    /\ tilt_ver' = <<ticks, "final">>
    /\ UNCHANGED <<servoCtlFrame, servo_lock, pid_clock, ctl_pc, ticks>>

SetLimitsStep ==
    SetLimitsCall \/ SetLimitsPanMin \/ SetLimitsPanMax \/ SetLimitsTiltMin \/ SetLimitsTiltMax

ServoCallStep(t) ==
    \/ SetTargetCall(t) \/ CenterCall(t)
    \/ SetTargetAcquire(t) \/ SetTargetPan(t) \/ SetTargetTilt(t)
    \/ GetPosCall(t) \/ GetPosAcquire(t) \/ GetPosRead(t)

ServoNext ==
    \/ ServoInitialize
    \/ SetLimitsStep
    \/ SerialSetup
    \/ \E t \in Threads : ServoCallStep(t)
    \/ ControlStep
    \/ CtlPwmFault

(***************************************************************************)
(*                            TargetTracker                                *)
(* One time unit is one second.  Boxes have even sides, so that centers    *)
(* are whole numbers; distances are compared by their squares.             *)
(***************************************************************************)
max_lost_time == 2
history_size == 5
deadzone_x == 20
deadzone_y == 20

\* TargetTracker.__init__ defaults: frame_width=640, frame_height=480
DefaultFrame == <<640, 480>>

\* the frame sizes a configuration may give (camera resolution)
FrameSizes == { DefaultFrame, <<320, 240>> }

\* the (max_pan, max_tilt) get_servo_angles is called with: its defaults, and
\* a narrower pair
AngleLimits == { <<90, 45>>, <<30, 10>> }

NoAngles == [called |-> FALSE, max_pan |-> 0, max_tilt |-> 0, pan |-> 0, tilt |-> 0]

MaxDets == 2    \* detections in one frame

None == 0

\* the bounding boxes the detector may report, in pixels: two of equal,
\* largest area, and a smaller one at the centre of the default frame, at
\* the same distance from both
Boxes ==
    << [x |-> 280, y |-> 160, width |-> 40, height |-> 80],
       [x |-> 320, y |-> 240, width |-> 80, height |-> 40],
       [x |-> 310, y |-> 230, width |-> 20, height |-> 20] >>

BoxIds == 1..Len(Boxes)

\* BoundingBox.center
center(d) == <<Boxes[d].x + Boxes[d].width \div 2, Boxes[d].y + Boxes[d].height \div 2>>

\* BoundingBox.area
area(d) == Boxes[d].width * Boxes[d].height

\* TargetTracker.distance, squared
distance2(pos1, pos2) ==
    (pos1[1] - pos2[1]) * (pos1[1] - pos2[1]) + (pos1[2] - pos2[2]) * (pos1[2] - pos2[2])

\* the frames: lists of up to MaxDets distinct boxes, in any order
DetectionLists ==
    { <<>> } \cup
    UNION { { ds \in [1..n -> BoxIds] : \A i, j \in 1..n : i # j => ds[i] # ds[j] }
            : n \in 1..MaxDets }

\* (variant: a later detection of equal area replaces the one kept)
Larger_OrEqual(d, best) == area(d) >= area(best)

\* max(detections, key=area) replaces the detection it keeps only by one whose
\* key is greater
Larger(d, best) == area(d) > area(best)

\* (variant: a later detection at equal distance replaces the one kept)
Nearer_OrEqual(d, best, c) == distance2(center(d), c) <= distance2(center(best), c)

\* min(detections, key=distance) replaces the detection it keeps only by one
\* whose key is smaller
Nearer(d, best, c) == distance2(center(d), c) < distance2(center(best), c)

RECURSIVE MaxAreaFrom(_, _, _)
MaxAreaFrom(ds, i, best) ==
    IF i > Len(ds) THEN best
    ELSE MaxAreaFrom(ds, i + 1, IF Larger(ds[i], best) THEN ds[i] ELSE best)

RECURSIVE NearestFrom(_, _, _, _)
NearestFrom(ds, i, best, c) ==
    IF i > Len(ds) THEN best
    ELSE NearestFrom(ds, i + 1, IF Nearer(ds[i], best, c) THEN ds[i] ELSE best, c)

\* (variant: a full history drops the entry just appended)
AddToHistory_DropNewest(h, position) ==
    IF Len(h) >= history_size THEN h ELSE Append(h, position)

\* add_to_history
AddToHistory(h, position) ==
    LET appended == Append(h, position)
    IN  IF Len(appended) > history_size THEN Tail(appended) ELSE appended

\* (variant: the track is dropped as soon as the grace period is used up)
LostExpired_AtLimit(current_time) == current_time - target_lost_time >= max_lost_time

\* current_time - self.target_lost_time > self.max_lost_time
LostExpired(current_time) == current_time - target_lost_time > max_lost_time

\* (variant: the timer restarts at every frame without detections)
LostTimerUnset_Always == TRUE

\* self.target_lost_time == 0
LostTimerUnset == target_lost_time = 0

\* self.frame_center_x, self.frame_center_y: width // 2, height // 2
frame_center_x == frame_width \div 2

frame_center_y == frame_height \div 2

Abs(v) == IF v < 0 THEN -v ELSE v

RECURSIVE SumOf(_, _)
SumOf(h, k) == IF h = <<>> THEN 0 ELSE Head(h)[k] + SumOf(Tail(h), k)

\* get_smoothed_position, as [x, y, n]: the position is (x / n, y / n)
GetSmoothedPosition ==
    IF position_history = <<>>
       THEN [x |-> frame_center_x, y |-> frame_center_y, n |-> 1]
       ELSE IF Len(position_history) = 1
               THEN [x |-> position_history[1][1], y |-> position_history[1][2], n |-> 1]
               ELSE [x |-> SumOf(position_history, 1), y |-> SumOf(position_history, 2),
                     n |-> Len(position_history)]

\* (variant: the errors are zeroed only when both are inside the deadzone)
Deadzoned_Joint(ex, ey, n) ==
    IF Abs(ex) < deadzone_x * n /\ Abs(ey) < deadzone_y * n THEN <<0, 0>> ELSE <<ex, ey>>

\* lines 60-63, on the errors times n:
\* if abs(error_x) < self.deadzone_x: error_x = 0, and the same for y
Deadzoned(ex, ey, n) ==
    << IF Abs(ex) < deadzone_x * n THEN 0 ELSE ex,
       IF Abs(ey) < deadzone_y * n THEN 0 ELSE ey >>

\* get_servo_angles(target, max_pan, max_tilt): <<pan, tilt>> in 1/Scale degree
GetServoAnglesResult(target, max_pan, max_tilt) ==
    IF target = None /\ current_target = None
       THEN <<0, 0>>
       ELSE LET sp == GetSmoothedPosition
                e  == Deadzoned(sp.x - sp.n * frame_center_x,
                                sp.y - sp.n * frame_center_y, sp.n)
                \* norm * max = (error / (frame / 2)) * max
                pan_angle  == Div(e[1] * 2 * max_pan * Scale, sp.n * frame_width)
                tilt_angle == Div(e[2] * 2 * max_tilt * Scale, sp.n * frame_height)
            IN  << Clamp(-Deg(max_pan), Deg(max_pan), pan_angle),
                   Clamp(-Deg(max_tilt), Deg(max_tilt), tilt_angle) >>

TrackerInit ==
    /\ current_target = None
    /\ target_lost_time = 0
    /\ position_history = <<>>
    /\ frame_width = DefaultFrame[1]
    /\ frame_height = DefaultFrame[2]
    /\ servo_angles = NoAngles
    /\ detections = <<>>
    /\ returned = None
    /\ last_seen = 0
    /\ last_call = 0
    /\ popped = <<>>

\* update_target(detections), lines 27-35: a frame without detections
UpdateTargetEmptyBody ==
    /\ detections' = <<>>
    /\ IF current_target # None
          THEN IF LostTimerUnset
                  THEN /\ target_lost_time' = now
                       /\ UNCHANGED <<current_target, position_history>>
                  ELSE IF LostExpired(now)
                          THEN /\ current_target' = None
                               /\ target_lost_time' = 0
                               /\ position_history' = <<>>
                          ELSE UNCHANGED <<current_target, target_lost_time,
                                           position_history>>
          ELSE UNCHANGED <<current_target, target_lost_time, position_history>>
    /\ returned' = current_target'
    /\ last_call' = now
    /\ popped' = <<>>
    /\ servo_angles' = NoAngles
    /\ UNCHANGED <<last_seen, frame_width, frame_height>>

UpdateTargetEmpty == UpdateTargetEmptyBody /\ UNCHANGED <<now, nonTracker>>

\* update_target(detections), lines 37-47: a frame with detections
UpdateTargetSeenBody(ds) ==
    /\ detections' = ds
    /\ current_target' =
          IF current_target = None
             THEN MaxAreaFrom(ds, 2, ds[1])
             ELSE NearestFrom(ds, 2, ds[1], center(current_target))
    /\ target_lost_time' = 0
    /\ position_history' = AddToHistory(position_history, center(current_target'))
    /\ popped' = IF Len(position_history) + 1 > history_size THEN Head(position_history)
                                                             ELSE <<>>
    /\ returned' = current_target'
    /\ last_seen' = now
    /\ last_call' = now
    /\ servo_angles' = NoAngles
    /\ UNCHANGED <<frame_width, frame_height>>

UpdateTargetSeen ==
    /\ \E ds \in DetectionLists \ { <<>> } : UpdateTargetSeenBody(ds)
    /\ UNCHANGED <<now, nonTracker>>

\* (variant: reset() leaves the lost timer as it is)
TrackerReset_KeepsTimer ==
    /\ current_target' = None
    /\ position_history' = <<>>
    /\ last_seen' = 0
    /\ popped' = <<>>
    /\ servo_angles' = NoAngles
    /\ UNCHANGED <<now, nonTracker, target_lost_time, detections, returned, last_call,
                   frame_width, frame_height>>

\* reset()
TrackerReset ==
    /\ current_target' = None
    /\ target_lost_time' = 0
    /\ position_history' = <<>>
    /\ last_seen' = 0
    /\ popped' = <<>>
    /\ servo_angles' = NoAngles
    /\ UNCHANGED <<now, nonTracker, detections, returned, last_call,
                   frame_width, frame_height>>

\* time passes between frames
TrackerTick ==
    /\ now < MaxTime
    /\ now' = now + 1
    /\ UNCHANGED <<nonTracker, trackerVars>>

TrackerNext == UpdateTargetEmpty \/ UpdateTargetSeen \/ TrackerReset \/ TrackerTick

\* set_frame_size(width, height)
SetFrameSize ==
    /\ \E size \in FrameSizes : frame_width' = size[1] /\ frame_height' = size[2]
    /\ servo_angles' = NoAngles
    /\ UNCHANGED <<now, nonTracker, current_target, target_lost_time, position_history,
                   detections, returned, last_seen, last_call, popped>>

\* get_servo_angles(target, max_pan, max_tilt): reads only
GetServoAngles ==
    /\ \E target \in {None, 1}, m \in AngleLimits :
          LET r == GetServoAnglesResult(target, m[1], m[2])
          IN  servo_angles' = [called |-> TRUE, max_pan |-> m[1], max_tilt |-> m[2],
                               pan |-> r[1], tilt |-> r[2]]
    /\ UNCHANGED <<now, nonTracker, current_target, target_lost_time, position_history,
                   frame_width, frame_height, detections, returned, last_seen, last_call, popped>>

\* (the clock stands still here: what get_servo_angles returns does not
\* depend on it)
AnglesNext ==
    \/ UpdateTargetEmpty \/ UpdateTargetSeen \/ TrackerReset
    \/ SetFrameSize \/ GetServoAngles

(***************************************************************************)
(*        AutoRedLSystem (src/main.py): initialize() and run()             *)
(* The main thread makes its calls into the controllers one after the      *)
(* other; inside a call it takes the steps of that controller.             *)
(***************************************************************************)
MaxFrames == 3          \* frames processed by run() in a behaviour
center_threshold == 30  \* is_target_centered(threshold=30.0), in pixels

\* what detect_humans returns for a frame: nobody, a person right of and
\* below the centre, a person at the centre
RunDetections == { <<>>, <<2>>, <<3>> }

\* the main thread's position in run() and inside the controller call it is
\* making; a signal handler runs on top of this frame and returns into it
NoFrame ==
    [rpc |-> "none", lpc |-> "idle", entry |-> NoEntry, spc |-> "idle",
     arg |-> <<0, 0>>, via_center |-> FALSE, sentry |-> <<0, 0>>, call_id |-> 0]

InterruptedFrame ==
    [rpc |-> rpc, lpc |-> lpc["main"], entry |-> entry["main"], spc |-> spc["main"],
     arg |-> arg["main"], via_center |-> via_center["main"],
     sentry |-> sentry["main"], call_id |-> call_id["main"]]

OrchInit ==
    /\ rpc = "off"
    /\ sys_running = FALSE
    /\ frame_count = 0
    /\ in_handler = FALSE
    /\ sd_log = <<>>
    /\ release_calls = [laser |-> 0, servo |-> 0]
    /\ resume = NoFrame

\* get_tracking_error() and is_target_centered(): sqrt(ex^2 + ey^2) < threshold
IsTargetCentered ==
    /\ current_target # None
    /\ LET sp == GetSmoothedPosition
           ex == sp.x - sp.n * frame_center_x
           ey == sp.y - sp.n * frame_center_y
       IN  ex * ex + ey * ey < center_threshold * center_threshold * sp.n * sp.n

\* thread t starts a set_target_position call (the callers bound how many
\* they make)
StartSetTarget(t, a, centre) ==
    /\ boot = "run"
    /\ spc[t] = "idle"
    /\ set_calls' = set_calls + 1
    /\ call_id' = [call_id EXCEPT ![t] = set_calls + 1]
    /\ arg' = [arg EXCEPT ![t] = a]
    /\ via_center' = [via_center EXCEPT ![t] = centre]
    /\ spc' = [spc EXCEPT ![t] = "st_wait"]
    /\ UNCHANGED <<servoLoopVars, servoLimits, servoTarget, servo_lock, boot, sentry, sl_arg>>

\* thread t starts a turn_on, turn_off or emergency_stop call
\* (emergency_stop does not test is_initialized)
StartLaserCall(t, kind) ==
    /\ lpc[t] = "idle"
    /\ lpc' = [lpc EXCEPT ![t] = IF kind = "stop" THEN "es_wait"
                                  ELSE IF ~is_initialized THEN "idle"
                                  ELSE IF kind = "on" THEN "on_wait" ELSE "off_wait"]
    /\ UNCHANGED <<releasing, is_on, is_initialized, last_on_time, safety_running,
                   laser_lock, pin, entry, wd_pc, wd_wake>>

MainSetTarget(a, centre) == StartSetTarget("main", a, centre)

\* the main thread starts a turn_on (on = TRUE) or a turn_off call
MainLaserCall(on) == StartLaserCall("main", IF on THEN "on" ELSE "off")

\* initialize(), its last step: center_servos() once the servo, its limits
\* and the emitter are set up
InitCenter ==
    /\ rpc = "off"
    /\ is_initialized
    /\ MainSetTarget(<<0, 0>>, TRUE)
    /\ rpc' = "centering"
    /\ UNCHANGED <<now, laserVars, trackerVars, pidVars, serialVars, sys_running, frame_count, in_handler, sd_log, release_calls, resume>>

\* initialize() returns and run() sets self.running
RunStart ==
    /\ rpc = "centering"
    /\ spc["main"] = "idle"
    /\ sys_running' = TRUE
    /\ rpc' = "loop"
    /\ UNCHANGED <<now, nonOrch, frame_count, in_handler, sd_log, release_calls, resume>>

\* while self.running: the camera delivers a frame
RunLoop ==
    /\ rpc = "loop"
    /\ sys_running
    /\ frame_count < MaxFrames
    /\ rpc' = "frame"
    /\ UNCHANGED <<now, nonOrch, sys_running, frame_count, in_handler, sd_log, release_calls, resume>>

\* (variant: a frame without detections treated as a frame without a track)
RunUpdate_DetectionsOnly ==
    /\ rpc = "frame"
    /\ \E ds \in RunDetections :
          IF ds = <<>> THEN UpdateTargetEmptyBody ELSE UpdateTargetSeenBody(ds)
    /\ rpc' = IF detections' # <<>> THEN "aim" ELSE "off_call"
    /\ UNCHANGED <<now, laserVars, servoVars, pidVars, serialVars, sys_running, frame_count, in_handler, sd_log, release_calls, resume>>

\* detections = detect_humans(frame); target = tracker.update_target(detections)
RunUpdate ==
    /\ rpc = "frame"
    /\ \E ds \in RunDetections :
          IF ds = <<>> THEN UpdateTargetEmptyBody ELSE UpdateTargetSeenBody(ds)
    /\ rpc' = IF current_target' # None THEN "aim" ELSE "off_call"
    /\ UNCHANGED <<now, laserVars, servoVars, pidVars, serialVars, sys_running, frame_count, in_handler, sd_log, release_calls, resume>>

\* pan, tilt = tracker.get_servo_angles(); servo.set_target_position(pan, tilt)
RunAim ==
    /\ rpc = "aim"
    /\ MainSetTarget(GetServoAnglesResult(None, 90, 45), FALSE)
    /\ rpc' = "aimed"
    /\ UNCHANGED <<now, laserVars, trackerVars, pidVars, serialVars, sys_running, frame_count, in_handler, sd_log, release_calls, resume>>

\* (variant: the emitter switched on for every track, centred or not)
RunCentered_AlwaysOn ==
    /\ rpc = "aimed"
    /\ spc["main"] = "idle"
    /\ rpc' = "on_call"
    /\ UNCHANGED <<now, nonOrch, sys_running, frame_count, in_handler, sd_log, release_calls, resume>>

\* if tracker.is_target_centered(): ... else: ...
RunCentered ==
    /\ rpc = "aimed"
    /\ spc["main"] = "idle"
    /\ rpc' = IF IsTargetCentered THEN "on_call" ELSE "off_call"
    /\ UNCHANGED <<now, nonOrch, sys_running, frame_count, in_handler, sd_log, release_calls, resume>>

\* self.laser.turn_on()
RunLaserOn ==
    /\ rpc = "on_call"
    /\ MainLaserCall(TRUE)
    /\ rpc' = "lasered"
    /\ UNCHANGED <<now, servoVars, trackerVars, pidVars, serialVars, sys_running, frame_count, in_handler, sd_log, release_calls, resume>>

\* self.laser.turn_off(): the track is off centre, or there is none
RunLaserOff ==
    /\ rpc = "off_call"
    /\ MainLaserCall(FALSE)
    /\ rpc' = "lasered"
    /\ UNCHANGED <<now, servoVars, trackerVars, pidVars, serialVars, sys_running, frame_count, in_handler, sd_log, release_calls, resume>>

\* frame_count += 1; time.sleep(0.033)
RunSleep ==
    /\ rpc = "lasered"
    /\ lpc["main"] = "idle"
    /\ frame_count' = frame_count + 1
    /\ rpc' = "loop"
    /\ UNCHANGED <<now, nonOrch, sys_running, in_handler, sd_log, release_calls, resume>>

\* the steps the main thread takes inside the calls it has started
MainCallStep ==
    \/ SetTargetAcquire("main") \/ SetTargetPan("main") \/ SetTargetTilt("main")
    \/ TurnOnAcquire("main") \/ TurnOnCheck("main") \/ TurnOnHigh("main")
    \/ TurnOnFlag("main") \/ TurnOnStamp("main")
    \/ TurnOffAcquire("main") \/ TurnOffCheck("main") \/ TurnOffLow("main")
    \/ TurnOffClear("main")

\* time passes between two frames (handling a frame takes no model time)
RunTick == rpc = "loop" /\ TrackerTick

RunStep ==
    \/ InitCenter \/ RunStart \/ RunLoop \/ RunUpdate \/ RunAim \/ RunCentered
    \/ RunLaserOn \/ RunLaserOff \/ RunSleep

\* The whole system tracking: start-up, the main loop frame by frame, the
\* servo control loop, and time passing between steps.
RunNext ==
    \/ ServoInitialize
    \/ SetLimitsStep
    \/ SerialSetup
    \/ LaserInitialize
    \/ RunStep
    \/ MainCallStep
    \/ ControlStep
    \/ RunTick

(***************************************************************************)
(*        SerialInterface and SerialDebugger                                *)
(*        (src/src/serial/serial_interface.py)                              *)
(* A string is a sequence of atoms: a word (a run of characters that are    *)
(* not whitespace) or one whitespace character.                             *)
(***************************************************************************)
MaxLines == 2     \* inbound lines in a behaviour
MaxStatus == 1    \* send_status calls in a behaviour

Whitespace == {" ", "\t"}

\* str.strip()
RECURSIVE LStrip(_)
LStrip(s) == IF s # <<>> /\ Head(s) \in Whitespace THEN LStrip(Tail(s)) ELSE s

RECURSIVE RStrip(_)
RStrip(s) ==
    IF s # <<>> /\ s[Len(s)] \in Whitespace THEN RStrip(SubSeq(s, 1, Len(s) - 1)) ELSE s

Strip(s) == RStrip(LStrip(s))

\* the place of the first ' ' at or after i, 0 if there is none
RECURSIVE FirstSpace(_, _)
FirstSpace(s, i) ==
    IF i > Len(s) THEN 0 ELSE IF s[i] = " " THEN i ELSE FirstSpace(s, i + 1)

\* (variant: the rest of the line stripped again)
SplitOnce_StripRest(s) ==
    LET i == FirstSpace(s, 1)
    IN  IF i = 0 THEN << s >>
                 ELSE << SubSeq(s, 1, i - 1), Strip(SubSeq(s, i + 1, Len(s))) >>

\* str.split(' ', 1)
SplitOnce(s) ==
    LET i == FirstSpace(s, 1)
    IN  IF i = 0 THEN << s >>
                 ELSE << SubSeq(s, 1, i - 1), SubSeq(s, i + 1, Len(s)) >>

UpperOf(a) ==
    CASE a = "servo" -> "SERVO" [] a = "on" -> "ON" [] a = "off" -> "OFF"
      [] a = "x" -> "X" [] OTHER -> a

LowerOf(a) ==
    CASE a = "SERVO" -> "servo" [] a = "ON" -> "on" [] a = "OFF" -> "off"
      [] a = "X" -> "x" [] OTHER -> a

\* str.upper(), str.lower()
Upper(s) == [i \in 1..Len(s) |-> UpperOf(s[i])]

Lower(s) == [i \in 1..Len(s) |-> LowerOf(s[i])]

\* str.split(): the words of the string
Words(s) == SelectSeq(s, LAMBDA a : a \notin Whitespace)

\* float(word): the words that are numbers, and their values
IsFloat(a) == a \in {"45", "30", "-200"}

FloatOf(a) == CASE a = "45" -> 45 [] a = "30" -> 30 [] a = "-200" -> -200 [] OTHER -> 0

\* ---- JSON values, as far as process_command looks into them
Str(s) == [kind |-> "str", s |-> s]

NoCommand == [kind |-> "none", s |-> <<>>]     \* no "command" key: None

ListValue == [kind |-> "list", s |-> <<>>]     \* "command": [...]

Dict(a) == [kind |-> "dict", has_args |-> TRUE, args |-> a]

EmptyDict == [kind |-> "dict", has_args |-> FALSE, args |-> <<>>]

AbsentParams == [kind |-> "absent", has_args |-> FALSE, args |-> <<>>]   \* no "params" key

StrParams == [kind |-> "str", has_args |-> FALSE, args |-> <<>>]         \* "params": "..."

\* ---- inbound lines
TextLine(s) == [enc |-> "text", text |-> s, ok |-> TRUE,
                command |-> NoCommand, params |-> AbsentParams]

JsonLine(c, p) == [enc |-> "json", text |-> <<>>, ok |-> TRUE, command |-> c, params |-> p]

\* a line that starts with '{' and is not JSON
BadJson == [enc |-> "json", text |-> <<>>, ok |-> FALSE,
            command |-> NoCommand, params |-> AbsentParams]

\* setup_commands(): the dispatch table
Registered == { <<"STATUS">>, <<"SERVO">>, <<"LASER">>, <<"STOP">> }

\* the two encodings of command c with argument string a
PlainEncoding(c, a) == TextLine(c \o <<" ">> \o a)

JsonEncoding(c, a) == JsonLine(Str(c), Dict(a))

ArgStrings ==
    { <<>>, <<"45", " ", "30">>, <<"on">>, <<" ", "on">>, <<"on", " ">> }

InboundLines ==
    { PlainEncoding(c, a) : c \in Registered, a \in ArgStrings }
    \cup { JsonEncoding(c, a) : c \in Registered, a \in ArgStrings }
    \cup { TextLine(<<>>), TextLine(<<"\t">>), TextLine(<<"HELP">>), TextLine(<<"STOP">>),
           TextLine(<<"servo", " ", "-200", " ", "30">>),
           TextLine(<<"LASER", " ", "OFF">>),
           TextLine(<<"SERVO", " ", "x", " ", "30">>),
           TextLine(<<"SERVO", "\t", "45", " ", "30">>),
           BadJson,
           JsonLine(Str(<<"servo">>), Dict(<<"45", " ", "30">>)),
           JsonLine(Str(<<"HELP">>), EmptyDict),
           JsonLine(Str(<<"LASER">>), AbsentParams),
           JsonLine(Str(<<"SERVO">>), StrParams),
           JsonLine(ListValue, EmptyDict),
           JsonLine(NoCommand, EmptyDict) }

\* read_loop, line 73: line.strip()
StripLine(raw) == IF raw.enc = "text" THEN [raw EXCEPT !.text = Strip(raw.text)] ELSE raw

\* process_command, lines 96-103
Parse(line) ==
    IF line.enc = "json"
       THEN IF ~line.ok
               THEN [raised |-> TRUE, command |-> NoCommand, params |-> EmptyDict]
               ELSE [raised |-> FALSE, command |-> line.command,
                     params |-> IF line.params.kind = "absent" THEN EmptyDict
                                                                 ELSE line.params]
       ELSE LET parts == SplitOnce(line.text)
            IN  [raised |-> FALSE, command |-> Str(Upper(parts[1])),
                 params |-> Dict(IF Len(parts) > 1 THEN parts[2] ELSE <<>>)]

\* params.get('args', '')
ArgsOf(params) == IF params.has_args THEN params.args ELSE <<>>

\* ---- outbound messages
R(text, a, b) == [text |-> text, a |-> a, b |-> b]

NoResult == R("", 0, 0)

NoMsg == [id |-> 0, type |-> "", command |-> <<>>, result |-> NoResult]

NoCmd == [command |-> NoCommand, params |-> EmptyDict]

NoLine == TextLine(<<>>)

NoLog == [in_table |-> FALSE, cb_ran |-> FALSE, cb_ok |-> FALSE, raised |-> FALSE,
          results |-> 0, done |-> TRUE]

\* json.dumps(message): cmd_status's result holds get_target_info(), whose
\* 'centered' is the numpy.bool_ of is_target_centered() while there is a
\* track; json.dumps raises TypeError on it
JsonDumpsOk(r) == ~(r.text = "status" /\ r.a = 1)

\* get_target_info has read nothing
NoSnap == [reads |-> 0, first |-> <<None, <<>>>>, same |-> TRUE, numpy |-> FALSE]

serialConn == <<is_connected, ser_running, conn_open, dc_pc>>

serialOut == <<write_queue, wire, flushed, wr_pc, wr_data>>

serialIn == <<rd_pc, rd_line, rd_cmd, rd_result, lines_read, rd_log>>

SerialInit ==
    /\ is_connected = FALSE
    /\ ser_running = FALSE
    /\ conn_open = FALSE
    /\ write_queue = <<>>
    /\ wire = <<>>
    /\ flushed = 0
    /\ wr_pc = "off"
    /\ wr_data = NoMsg
    /\ rd_pc = "off"
    /\ rd_line = NoLine
    /\ rd_cmd = NoCmd
    /\ rd_result = NoResult
    /\ dc_pc = "idle"
    /\ lines_read = 0
    /\ accepted = 0
    /\ status_sent = 0
    /\ rd_log = NoLog
    /\ rd_snap = NoSnap

\* send_message(msg_type, data)
Accepts(result) == is_connected /\ JsonDumpsOk(result)

SendMessage(type, command, result) ==
    IF Accepts(result)
       THEN /\ write_queue' = Append(write_queue, [id |-> accepted + 1, type |-> type,
                                                   command |-> command, result |-> result])
            /\ accepted' = accepted + 1
       ELSE UNCHANGED <<write_queue, accepted>>

\* connect(): the port opens, both threads start (main.py connects after the
\* servo and the emitter are set up)
Connect ==
    /\ boot = "run"
    /\ is_initialized
    /\ rpc = "off"
    /\ dc_pc = "idle"
    /\ ~is_connected
    /\ rd_pc = "off"
    /\ conn_open' = TRUE
    /\ is_connected' = TRUE
    /\ ser_running' = TRUE
    /\ rd_pc' = "loop"
    /\ wr_pc' = "loop"
    /\ UNCHANGED <<now, laserVars, servoVars, trackerVars, pidVars, orchVars, dc_pc, write_queue, wire, flushed, wr_data,
                   rd_line, rd_cmd, rd_result, lines_read, accepted, status_sent, rd_snap, rd_log>>

\* ---- read_loop and process_command (the reader thread)
\* (variant: no exception is caught)
Caught_Nothing(exception) == FALSE

\* except Exception: pass
Caught(exception) ==
    exception \in {"AttributeError", "TypeError", "ValueError", "JSONDecodeError"}

\* a line arrives: line.strip(), then process_command up to the table lookup
RdLineFrom(lines) ==
    /\ rd_pc = "loop"
    /\ ser_running
    /\ lines_read < MaxLines
    /\ \E raw \in lines :
          LET line  == StripLine(raw)
              empty == line.enc = "text" /\ line.text = <<>>
              pr    == Parse(line)
              \* `command in self.command_callbacks` raises on an unhashable command
              unhashable == ~empty /\ ~pr.raised /\ pr.command.kind = "list"
              known == /\ ~empty
                       /\ ~pr.raised
                       /\ pr.command.kind = "str"
                       /\ pr.command.s \in Registered
          IN  /\ rd_line' = IF known THEN raw ELSE NoLine
              /\ rd_cmd' = IF known THEN [command |-> pr.command, params |-> pr.params]
                                    ELSE NoCmd
              /\ rd_pc' = IF known THEN "cb"
                          ELSE IF ~empty /\ pr.raised /\ ~Caught("JSONDecodeError") THEN "dead"
                          ELSE IF unhashable /\ ~Caught("TypeError") THEN "dead"
                          ELSE "loop"
              /\ rd_log' = [in_table |-> known, cb_ran |-> FALSE, cb_ok |-> FALSE,
                            raised |-> ~empty /\ (pr.raised \/ unhashable),
                            results |-> 0, done |-> ~known]
    /\ lines_read' = lines_read + 1
    /\ rd_result' = NoResult
    /\ UNCHANGED <<now, laserVars, servoVars, trackerVars, pidVars, orchVars,
                   serialConn, serialOut, accepted, status_sent, rd_snap>>

\* any of the lines
RdLine == RdLineFrom(InboundLines)

\* the lines of an operator who types well-formed commands
ChannelLines == { TextLine(<<"HELP">>), TextLine(<<"LASER">>), TextLine(<<"STOP">>) }

RdChannelLine == RdLineFrom(ChannelLines)

\* an exception is raised inside the try block of process_command
RdRaise(exception) ==
    /\ rd_pc' = IF Caught(exception) THEN "loop" ELSE "dead"
    /\ rd_log' = [rd_log EXCEPT !.cb_ran = TRUE, !.raised = TRUE, !.done = TRUE]
    /\ rd_line' = NoLine
    /\ rd_cmd' = NoCmd
    /\ UNCHANGED <<rd_result, lines_read>>

RdReturn(result, next) ==
    /\ rd_result' = result
    /\ rd_pc' = next
    /\ rd_log' = [rd_log EXCEPT !.cb_ran = TRUE]
    /\ UNCHANGED <<rd_line, rd_cmd, lines_read>>

RdAt(name) == rd_pc = "cb" /\ rd_cmd.command.s = << name >>

restOfSerialNoSnap == <<serialConn, serialOut, accepted, status_sent>>

restOfSerial == <<restOfSerialNoSnap, rd_snap>>

\* cmd_servo(params)
RdCbServo ==
    /\ RdAt("SERVO")
    /\ IF rd_cmd.params.kind # "dict"
          THEN RdRaise("AttributeError") /\ UNCHANGED servoVars
          ELSE LET args == Words(ArgsOf(rd_cmd.params))
               IN  IF Len(args) >= 2
                      THEN IF IsFloat(args[1]) /\ IsFloat(args[2])
                              THEN /\ StartSetTarget("reader", << Deg(FloatOf(args[1])),
                                                                  Deg(FloatOf(args[2])) >>, FALSE)
                                   /\ RdReturn(R("Moving to", FloatOf(args[1]),
                                                 FloatOf(args[2])), "servo_wait")
                              ELSE /\ RdReturn(R("Invalid args", 0, 0), "send")
                                   /\ UNCHANGED servoVars
                      ELSE \* get_current_position(): both fields read under the lock
                           /\ servo_lock = "none"
                           /\ RdReturn(R("Position", current_pan, current_tilt), "send")
                           /\ UNCHANGED servoVars
    /\ UNCHANGED <<now, laserVars, trackerVars, pidVars, orchVars, restOfSerial>>

\* set_target_position or center_servos has returned
RdServoDone ==
    /\ rd_pc = "servo_wait"
    /\ spc["reader"] = "idle"
    /\ rd_pc' = "send"
    /\ UNCHANGED <<now, laserVars, servoVars, trackerVars, pidVars, orchVars, restOfSerial,
                   rd_line, rd_cmd, rd_result, lines_read, rd_log>>

\* cmd_laser(params)
RdCbLaser ==
    /\ RdAt("LASER")
    /\ IF rd_cmd.params.kind # "dict"
          THEN RdRaise("AttributeError") /\ UNCHANGED laserVars
          ELSE LET args == Lower(ArgsOf(rd_cmd.params))
               IN  IF args = <<"on">>
                      THEN /\ StartLaserCall("reader", "on")
                           /\ RdReturn(R("Laser ON", 0, 0), "laser_wait")
                      ELSE IF args = <<"off">>
                              THEN /\ StartLaserCall("reader", "off")
                                   /\ RdReturn(R("Laser OFF", 0, 0), "laser_wait")
                              ELSE \* is_laser_on(): is_on read under the lock
                                   /\ LockFree
                                   /\ RdReturn(R(IF is_on THEN "ON" ELSE "OFF", 0, 0), "send")
                                   /\ UNCHANGED laserVars
    /\ UNCHANGED <<now, servoVars, trackerVars, pidVars, orchVars, restOfSerial>>

\* turn_on or turn_off has returned
RdLaserDone ==
    /\ rd_pc = "laser_wait"
    /\ lpc["reader"] = "idle"
    /\ rd_pc' = "send"
    /\ UNCHANGED <<now, laserVars, servoVars, trackerVars, pidVars, orchVars, restOfSerial,
                   rd_line, rd_cmd, rd_result, lines_read, rd_log>>

\* cmd_stop(params): emergency_stop() ...
RdCbStop ==
    /\ RdAt("STOP")
    /\ StartLaserCall("reader", "stop")
    /\ RdReturn(R("STOP", 0, 0), "stop_wait")
    /\ UNCHANGED <<now, servoVars, trackerVars, pidVars, orchVars, restOfSerial>>

\* ... then center_servos()
RdStopCenter ==
    /\ rd_pc = "stop_wait"
    /\ lpc["reader"] = "idle"
    /\ StartSetTarget("reader", <<0, 0>>, TRUE)
    /\ rd_pc' = "servo_wait"
    /\ UNCHANGED <<now, laserVars, trackerVars, pidVars, orchVars, restOfSerial,
                   rd_line, rd_cmd, rd_result, lines_read, rd_log>>

\* cmd_status(params): the flags, get_current_position(), get_target_info()
RdCbStatus ==
    /\ RdAt("STATUS")
    /\ servo_initialized => servo_lock = "none"
    /\ RdReturn(R("status", IF current_target # None THEN 1 ELSE 0, 0), "send")
    /\ UNCHANGED <<now, laserVars, servoVars, trackerVars, pidVars, orchVars, restOfSerial>>

\* ---- cmd_status(params) with get_target_info() read by read: the tracker
\* has no lock, so update_target in the main thread runs between the reads
TrackerSeen == <<current_target, position_history>>

InfoFrame == <<now, laserVars, servoVars, trackerVars, pidVars, orchVars, restOfSerialNoSnap>>

SnapFirst == [reads |-> 1, first |-> TrackerSeen, same |-> TRUE, numpy |-> FALSE]

SnapRead(numpy) ==
    [reads |-> rd_snap.reads + 1, first |-> rd_snap.first,
     same |-> rd_snap.same /\ TrackerSeen = rd_snap.first, numpy |-> numpy]

InfoRead(next) ==
    /\ rd_snap' = SnapRead(rd_snap.numpy)
    /\ rd_pc' = next
    /\ UNCHANGED <<rd_line, rd_cmd, rd_result, lines_read, rd_log>>

\* get_current_position(), then get_target_info(): if not self.current_target
InfoTest ==
    /\ RdAt("STATUS")
    /\ servo_initialized => servo_lock = "none"
    /\ IF current_target = None
          THEN /\ rd_snap' = SnapFirst
               /\ RdReturn(R("status", 0, 0), "send")
          ELSE /\ rd_snap' = SnapFirst
               /\ rd_pc' = "info_error"
               /\ rd_log' = [rd_log EXCEPT !.cb_ran = TRUE]
               /\ UNCHANGED <<rd_line, rd_cmd, rd_result, lines_read>>
    /\ UNCHANGED InfoFrame

\* error_x, error_y = self.get_tracking_error()
InfoError == rd_pc = "info_error" /\ InfoRead("info_angles") /\ UNCHANGED InfoFrame

\* pan_angle, tilt_angle = self.get_servo_angles()
InfoAngles == rd_pc = "info_angles" /\ InfoRead("info_dict") /\ UNCHANGED InfoFrame

\* 'target': self.current_target.to_dict()
InfoDict ==
    /\ rd_pc = "info_dict"
    /\ IF current_target = None
          THEN RdRaise("AttributeError") /\ UNCHANGED rd_snap
          ELSE InfoRead("info_centered")
    /\ UNCHANGED InfoFrame

\* 'centered': self.is_target_centered(), a numpy.bool_ when a track is there
InfoCentered ==
    /\ rd_pc = "info_centered"
    /\ rd_snap' = SnapRead(current_target # None)
    /\ rd_pc' = "info_smoothed"
    /\ UNCHANGED <<rd_line, rd_cmd, rd_result, lines_read, rd_log>>
    /\ UNCHANGED InfoFrame

\* 'smoothed_position': self.get_smoothed_position(), and cmd_status returns
InfoSmoothed ==
    /\ rd_pc = "info_smoothed"
    /\ rd_snap' = SnapRead(rd_snap.numpy)
    /\ RdReturn(R("status", IF rd_snap.numpy THEN 1 ELSE 0, 0), "send")
    /\ UNCHANGED InfoFrame

InfoStep == InfoTest \/ InfoError \/ InfoAngles \/ InfoDict \/ InfoCentered \/ InfoSmoothed

\* self.send_message("RESULT", {"command": command, "result": result}),
\* and process_command returns
RdSend ==
    /\ rd_pc = "send"
    /\ SendMessage("RESULT", rd_cmd.command.s, rd_result)
    /\ rd_pc' = "loop"
    /\ rd_log' = [rd_log EXCEPT !.cb_ok = TRUE, !.done = TRUE,
                                !.results = IF Accepts(rd_result) THEN 1 ELSE 0]
    /\ rd_line' = NoLine
    /\ rd_cmd' = NoCmd
    /\ rd_result' = NoResult
    /\ UNCHANGED <<now, laserVars, servoVars, trackerVars, pidVars, orchVars, serialConn,
                   wire, flushed, wr_pc, wr_data, lines_read, status_sent, rd_snap>>

\* while self.running: the loop ends
RdExit ==
    /\ rd_pc = "loop"
    /\ ~ser_running
    /\ rd_pc' = "done"
    /\ UNCHANGED <<now, laserVars, servoVars, trackerVars, pidVars, orchVars, restOfSerial,
                   rd_line, rd_cmd, rd_result, lines_read, rd_log>>

\* the reader after the table lookup
ReaderStep ==
    \/ RdCbServo \/ RdServoDone \/ RdCbLaser \/ RdLaserDone
    \/ RdCbStop \/ RdStopCenter \/ RdCbStatus \/ RdSend \/ RdExit

\* the steps the reader thread takes inside the controller calls it has started
ReaderCallStep ==
    \/ SetTargetAcquire("reader") \/ SetTargetPan("reader") \/ SetTargetTilt("reader")
    \/ LaserCallStep("reader")

\* ---- write_loop (the writer thread)
writerFrame == <<now, laserVars, servoVars, trackerVars, pidVars, orchVars, serialConn,
                 serialIn, accepted, status_sent, rd_snap>>

\* (variant: the newest message taken first)
Dequeue_Newest(q) == [data |-> q[Len(q)], rest |-> SubSeq(q, 1, Len(q) - 1)]

\* Queue.get()
Dequeue(q) == [data |-> Head(q), rest |-> Tail(q)]

\* if not self.write_queue.empty(): data = self.write_queue.get(timeout=0.1)
WrTake ==
    /\ wr_pc = "loop"
    /\ ser_running
    /\ write_queue # <<>>
    /\ wr_data' = Dequeue(write_queue).data
    /\ write_queue' = Dequeue(write_queue).rest
    /\ wr_pc' = "got"
    /\ UNCHANGED <<writerFrame, wire, flushed>>

\* if self.serial_conn and self.serial_conn.is_open: self.serial_conn.write(data)
WrWrite ==
    /\ wr_pc = "got"
    /\ IF conn_open
          THEN wire' = Append(wire, wr_data) /\ wr_pc' = "flush" /\ UNCHANGED wr_data
          ELSE wr_pc' = "loop" /\ wr_data' = NoMsg /\ UNCHANGED wire
    /\ UNCHANGED <<writerFrame, write_queue, flushed>>

\* self.serial_conn.flush() (it raises on a closed port)
WrFlush ==
    /\ wr_pc = "flush"
    /\ flushed' = IF conn_open THEN Len(wire) ELSE flushed
    /\ wr_data' = NoMsg
    /\ wr_pc' = "loop"
    /\ UNCHANGED <<writerFrame, write_queue, wire>>

\* write raises (the device is gone): except Exception: time.sleep(0.1)
WrFault ==
    /\ wr_pc = "got"
    /\ conn_open
    /\ wr_data' = NoMsg
    /\ wr_pc' = "loop"
    /\ UNCHANGED <<writerFrame, write_queue, wire, flushed>>

WrExit ==
    /\ wr_pc = "loop"
    /\ ~ser_running
    /\ wr_pc' = "done"
    /\ UNCHANGED <<writerFrame, write_queue, wire, flushed, wr_data>>

WriterStep == WrTake \/ WrWrite \/ WrFlush \/ WrExit

\* ---- the main thread
\* run(), lines 166-178: send_status(status) every 30 frames
SendStatus ==
    /\ is_connected
    /\ dc_pc = "idle"
    /\ status_sent < MaxStatus
    /\ status_sent' = status_sent + 1
    /\ SendMessage("STATUS", <<>>, R("system_status", status_sent + 1, 0))
    /\ UNCHANGED <<now, laserVars, servoVars, trackerVars, pidVars, orchVars, serialConn, serialIn, wire, flushed,
                   wr_pc, wr_data, rd_snap>>

\* disconnect(): self.running = False
StartDisconnect ==
    /\ dc_pc = "idle"
    /\ is_connected
    /\ ser_running' = FALSE
    /\ dc_pc' = "join"
    /\ UNCHANGED <<serialIn, serialOut, accepted, status_sent, rd_snap, is_connected, conn_open>>

DcStop ==
    /\ StartDisconnect
    /\ UNCHANGED <<now, laserVars, servoVars, trackerVars, pidVars, orchVars>>

\* both joins have returned (each gives up after 1.0 s); serial_conn.close()
DcClose ==
    /\ dc_pc = "join"
    /\ conn_open' = FALSE
    /\ dc_pc' = "flag"
    /\ UNCHANGED <<now, laserVars, servoVars, trackerVars, pidVars, orchVars, serialIn, serialOut, accepted, status_sent, rd_snap,
                   is_connected, ser_running>>

\* self.is_connected = False
DcFlag ==
    /\ dc_pc = "flag"
    /\ is_connected' = FALSE
    /\ dc_pc' = "done"
    /\ UNCHANGED <<now, laserVars, servoVars, trackerVars, pidVars, orchVars, serialIn, serialOut, accepted, status_sent, rd_snap,
                   conn_open, ser_running>>

DisconnectStep == DcStop \/ DcClose \/ DcFlag

\* the tracker picks up a person (the first frame with a detection; what
\* the channel does with a track does not depend on when it appeared)
FirstSighting ==
    /\ current_target = None
    /\ is_connected
    /\ lines_read = 0
    /\ accepted = 0
    /\ UpdateTargetSeenBody(<<2>>)
    /\ UNCHANGED <<now, laserVars, servoVars, pidVars, orchVars, serialVars>>

\* Inbound commands: start-up of the servo and the emitter, connect, a track
\* appearing, any inbound lines and their callbacks, and disconnect.
CommandsNext ==
    \/ ServoInitialize
    \/ SetLimitsStep
    \/ SerialSetup
    \/ LaserInitialize
    \/ Connect
    \/ FirstSighting
    \/ RdLine
    \/ ReaderStep
    \/ ReaderCallStep
    \/ DisconnectStep

\* the orchestrator's update_target(detections) of one frame
StatusDetections == { <<>>, <<2>> }

TrackFrame ==
    /\ is_connected
    /\ \E ds \in StatusDetections :
          IF ds = <<>> THEN UpdateTargetEmptyBody ELSE UpdateTargetSeenBody(ds)
    /\ UNCHANGED <<now, nonTracker>>

TrackTick == is_connected /\ TrackerTick

StatusLines == { TextLine(<<"STATUS">>) }

RdStatusLine == RdLineFrom(StatusLines)

\* STATUS commands answered while the orchestrator feeds frames to the tracker
StatusNext ==
    \/ ServoInitialize
    \/ SetLimitsStep
    \/ SerialSetup
    \/ LaserInitialize
    \/ Connect
    \/ TrackFrame
    \/ TrackTick
    \/ RdStatusLine
    \/ InfoStep
    \/ RdSend

\* The outbound side in service: the reader answering well-formed commands,
\* status messages from the main thread, the writer, and disconnect.
ChannelNext ==
    \/ ServoInitialize
    \/ SetLimitsStep
    \/ SerialSetup
    \/ LaserInitialize
    \/ Connect
    \/ RdChannelLine
    \/ RdCbLaser \/ RdCbStop \/ RdStopCenter \/ RdServoDone \/ RdSend \/ RdExit
    \/ SetTargetAcquire("reader") \/ SetTargetPan("reader") \/ SetTargetTilt("reader")
    \/ EStopAcquire("reader") \/ EStopLow("reader") \/ EStopClear("reader")
    \/ WriterStep
    \/ SendStatus
    \/ DisconnectStep

\* ... with writes that may fail
SerialNext == ChannelNext \/ WrFault

(***************************************************************************)
(*        AutoRedLSystem.shutdown (src/main.py)                            *)
(* shutdown() is the handler of SIGINT and SIGTERM, and run() calls it in  *)
(* its finally clause.  The handler runs in the main thread: Signal        *)
(* delivers it at the top of the loop, SignalInCall inside an iteration.   *)
(***************************************************************************)
ShutdownOrder ==
    << "flag", "estop", "laser_release", "center", "wait", "servo_release",
       "camera", "disconnect" >>

Begun(step) == sd_log' = Append(sd_log, step)

\* SIGINT or SIGTERM: shutdown(signum, frame) starts as the handler
Signal ==
    /\ rpc = "loop"
    /\ sys_running
    /\ ~in_handler
    /\ in_handler' = TRUE
    /\ resume' = InterruptedFrame
    /\ sd_log' = <<>>
    /\ rpc' = "sd_flag"
    /\ UNCHANGED <<now, nonOrch, sys_running, frame_count, release_calls>>

\* SIGINT or SIGTERM while the main thread is inside an iteration of the
\* loop, possibly inside turn_on, turn_off or set_target_position: the
\* handler starts on the same thread, on top of the interrupted call, which
\* keeps whatever lock it holds until the handler has returned
SignalInCall ==
    /\ rpc \in {"frame", "aim", "aimed", "on_call", "off_call", "lasered"}
    /\ sys_running
    /\ ~in_handler
    /\ in_handler' = TRUE
    /\ resume' = InterruptedFrame
    /\ sd_log' = <<>>
    /\ rpc' = "sd_flag"
    /\ lpc' = [lpc EXCEPT !["main"] = "idle"]
    /\ entry' = [entry EXCEPT !["main"] = NoEntry]
    /\ spc' = [spc EXCEPT !["main"] = "idle"]
    /\ arg' = [arg EXCEPT !["main"] = <<0, 0>>]
    /\ via_center' = [via_center EXCEPT !["main"] = FALSE]
    /\ sentry' = [sentry EXCEPT !["main"] = <<0, 0>>]
    /\ call_id' = [call_id EXCEPT !["main"] = 0]
    /\ UNCHANGED <<now, trackerVars, pidVars, serialVars, sys_running, frame_count, release_calls,
                   releasing, is_on, is_initialized, last_on_time, safety_running,
                   laser_lock, pin, wd_pc, wd_wake,
                   servoLoopVars, servoLimits, servoTarget, servo_lock, boot, sl_arg, set_calls>>

\* while self.running: the loop ends; finally: self.shutdown()
RunExit ==
    /\ rpc = "loop"
    /\ ~sys_running
    /\ sd_log' = <<>>
    /\ rpc' = "sd_flag"
    /\ UNCHANGED <<now, nonOrch, sys_running, frame_count, in_handler, release_calls, resume>>

\* self.running = False
SdFlag ==
    /\ rpc = "sd_flag"
    /\ sys_running' = FALSE
    /\ Begun("flag")
    /\ rpc' = "sd_estop"
    /\ UNCHANGED <<now, nonOrch, frame_count, in_handler, release_calls, resume>>

\* self.laser.emergency_stop()
SdEStop ==
    /\ rpc = "sd_estop"
    /\ StartLaserCall("main", "stop")
    /\ Begun("estop")
    /\ rpc' = "sd_release"
    /\ UNCHANGED <<now, servoVars, trackerVars, pidVars, serialVars,
                   sys_running, frame_count, in_handler, release_calls, resume>>

\* self.laser.release()
SdLaserRelease ==
    /\ rpc = "sd_release"
    /\ StartRelease
    /\ release_calls' = [release_calls EXCEPT !.laser = @ + 1]
    /\ Begun("laser_release")
    /\ rpc' = "sd_center"
    /\ UNCHANGED <<now, servoVars, trackerVars, pidVars, serialVars,
                   sys_running, frame_count, in_handler, resume>>

\* self.servo.center_servos()
SdCenter ==
    /\ rpc = "sd_center"
    /\ lpc["main"] = "idle"
    /\ MainSetTarget(<<0, 0>>, TRUE)
    /\ Begun("center")
    /\ rpc' = "sd_wait"
    /\ UNCHANGED <<now, laserVars, trackerVars, pidVars, serialVars,
                   sys_running, frame_count, in_handler, release_calls, resume>>

\* time.sleep(0.5)
SdSleep ==
    /\ rpc = "sd_wait"
    /\ spc["main"] = "idle"
    /\ Begun("wait")
    /\ rpc' = "sd_servo"
    /\ UNCHANGED <<now, nonOrch, sys_running, frame_count, in_handler, release_calls, resume>>

\* self.servo.release(): self.running = False ...
SdServoRelease ==
    /\ rpc = "sd_servo"
    /\ running' = FALSE
    /\ release_calls' = [release_calls EXCEPT !.servo = @ + 1]
    /\ Begun("servo_release")
    /\ rpc' = "sd_servo_flag"
    /\ UNCHANGED <<now, laserVars, trackerVars, pidVars, serialVars,
                   sys_running, frame_count, in_handler, resume,
                   current_pan, current_tilt, pan_pid, tilt_pid, servo_initialized,
                   pwm_pan, pwm_tilt, pid_clock, ctl_pc, ctl_local, ticks, pan_ver, tilt_ver,
                   servoLimits, servoTarget, servo_lock, servoCallVars, boot>>

\* ... the join has returned (it gives up after 1.0 s), both PWMs stopped,
\* GPIO.cleanup(), self.is_initialized = False
SdServoFlag ==
    /\ rpc = "sd_servo_flag"
    /\ servo_initialized' = FALSE
    /\ rpc' = "sd_camera"
    /\ UNCHANGED <<now, laserVars, trackerVars, pidVars, serialVars,
                   sys_running, frame_count, in_handler, sd_log, release_calls, resume,
                   current_pan, current_tilt, pan_pid, tilt_pid, running,
                   pwm_pan, pwm_tilt, pid_clock, ctl_pc, ctl_local, ticks, pan_ver, tilt_ver,
                   servoLimits, servoTarget, servo_lock, servoCallVars, boot>>

\* self.camera.release()
SdCamera ==
    /\ rpc = "sd_camera"
    /\ Begun("camera")
    /\ rpc' = "sd_serial"
    /\ UNCHANGED <<now, nonOrch, sys_running, frame_count, in_handler, release_calls, resume>>

\* if self.serial: self.serial.disconnect()
SdDisconnect ==
    /\ rpc = "sd_serial"
    /\ IF is_connected /\ dc_pc = "idle"
          THEN StartDisconnect
          ELSE UNCHANGED serialVars
    /\ sd_log' = IF is_connected \/ dc_pc # "idle" THEN Append(sd_log, "disconnect") ELSE sd_log
    /\ rpc' = "sd_disc"
    /\ UNCHANGED <<now, laserVars, servoVars, trackerVars, pidVars,
                   sys_running, frame_count, in_handler, release_calls, resume>>

\* shutdown() returns: to the interrupted loop, or out of run()
SdDone ==
    /\ rpc = "sd_disc"
    /\ dc_pc \in {"idle", "done"}
    /\ IF in_handler
          THEN /\ rpc' = resume.rpc
               /\ lpc' = [lpc EXCEPT !["main"] = resume.lpc]
               /\ entry' = [entry EXCEPT !["main"] = resume.entry]
               /\ spc' = [spc EXCEPT !["main"] = resume.spc]
               /\ arg' = [arg EXCEPT !["main"] = resume.arg]
               /\ via_center' = [via_center EXCEPT !["main"] = resume.via_center]
               /\ sentry' = [sentry EXCEPT !["main"] = resume.sentry]
               /\ call_id' = [call_id EXCEPT !["main"] = resume.call_id]
          ELSE /\ rpc' = "exited"
               /\ UNCHANGED <<lpc, entry, spc, arg, via_center, sentry, call_id>>
    /\ in_handler' = FALSE
    /\ resume' = NoFrame
    /\ UNCHANGED <<now, trackerVars, pidVars, serialVars, sys_running, frame_count, sd_log,
                   release_calls,
                   releasing, is_on, is_initialized, last_on_time, safety_running,
                   laser_lock, pin, wd_pc, wd_wake,
                   servoLoopVars, servoLimits, servoTarget, servo_lock, boot, sl_arg, set_calls>>

ShutdownStep ==
    \/ SdFlag \/ SdEStop \/ SdLaserRelease \/ SdCenter \/ SdSleep
    \/ SdServoRelease \/ SdServoFlag \/ SdCamera \/ SdDisconnect \/ SdDone

\* the steps the main thread takes inside the calls shutdown() has started
ShutdownCallStep ==
    \/ EStopAcquire("main") \/ EStopLow("main") \/ EStopClear("main")
    \/ ReleaseJoin
    \/ TurnOffAcquire("main") \/ TurnOffCheck("main") \/ TurnOffLow("main")
    \/ TurnOffClear("main")
    \/ ReleaseCleanup \/ ReleaseFlag
    \/ SetTargetAcquire("main") \/ SetTargetPan("main") \/ SetTargetTilt("main")
    \/ DcClose \/ DcFlag

\* what the operator sends while the system goes down
ShutdownLines == { TextLine(<<"LASER", " ", "on">>) }

RdShutdownLine == RdLineFrom(ShutdownLines)

\* Shutdown: start-up, a signal at the top of the loop, shutdown() as the
\* handler and again from the finally clause, the watchdog, the clock, and
\* the reader thread switching the emitter on for the operator.
ShutdownNext ==
    \/ ServoInitialize
    \/ SetLimitsStep
    \/ SerialSetup
    \/ LaserInitialize
    \/ Connect
    \/ InitCenter
    \/ RunStart
    \/ Signal
    \/ RunExit
    \/ ShutdownStep
    \/ ShutdownCallStep
    \/ RdShutdownLine
    \/ RdCbLaser \/ RdLaserDone \/ RdSend \/ RdExit
    \/ TurnOnAcquire("reader") \/ TurnOnCheck("reader") \/ TurnOnHigh("reader")
    \/ TurnOnFlag("reader") \/ TurnOnStamp("reader")
    \/ WatchdogStep
    \/ LaserTick

\* ---- run(): the iterations without a frame, and the status message
\* (variant: an iteration without a frame counted as a frame)
RunNoFrame_Counted ==
    /\ rpc = "frame"
    /\ frame_count' = frame_count + 1
    /\ rpc' = "backoff"
    /\ UNCHANGED <<now, nonOrch, sys_running, in_handler, sd_log, release_calls, resume>>

\* frame = self.camera.capture_frame(); if frame is None:
RunNoFrame ==
    /\ rpc = "frame"
    /\ rpc' = "backoff"
    /\ UNCHANGED <<now, nonOrch, sys_running, frame_count, in_handler, sd_log, release_calls, resume>>

\* time.sleep(0.01); continue
RunBackoff ==
    /\ rpc = "backoff"
    /\ rpc' = "loop"
    /\ UNCHANGED <<now, nonOrch, sys_running, frame_count, in_handler, sd_log, release_calls, resume>>

StatusEvery == 30

\* if self.serial and self.serial.is_connected and self.frame_count % 30 == 0
StatusDue == is_connected /\ frame_count % StatusEvery = 0

\* self.serial.send_status(status), with laser.is_laser_on() read under the lock
RunStatus ==
    /\ rpc = "lasered"
    /\ lpc["main"] = "idle"
    /\ StatusDue
    /\ laser_lock = "none"
    /\ status_sent' = status_sent + 1
    /\ SendMessage("STATUS", <<>>, R("system_status", frame_count, IF is_on THEN 1 ELSE 0))
    /\ rpc' = "reported"
    /\ UNCHANGED <<now, laserVars, servoVars, trackerVars, pidVars, serialConn, serialIn, wire, flushed,
                   wr_pc, wr_data, rd_snap, sys_running, frame_count, in_handler, sd_log, release_calls, resume>>

\* self.frame_count += 1; time.sleep(...), after the status message
RunSleepReported ==
    /\ rpc = "reported"
    /\ frame_count' = frame_count + 1
    /\ rpc' = "loop"
    /\ UNCHANGED <<now, nonOrch, sys_running, in_handler, sd_log, release_calls, resume>>

\* ... when no status message is due
RunSleepQuiet == ~StatusDue /\ RunSleep

\* The loop with a camera that may deliver no frame: start-up, connect, the
\* iterations with and without a frame, the periodic status message, the
\* watchdog and the clock.
FramesNext ==
    \/ ServoInitialize
    \/ SetLimitsStep
    \/ SerialSetup
    \/ LaserInitialize
    \/ Connect
    \/ InitCenter \/ RunStart \/ RunLoop \/ RunNoFrame \/ RunBackoff
    \/ RunUpdate \/ RunAim \/ RunCentered \/ RunLaserOn \/ RunLaserOff
    \/ RunStatus \/ RunSleepReported \/ RunSleepQuiet
    \/ MainCallStep
    \/ WatchdogStep
    \/ RunTick

\* ---- run() with a person standing in the centre of every frame
CenteredDetections == << 3 >>

\* detections = detect_humans(frame); target = tracker.update_target(detections)
RunUpdateCentered ==
    /\ rpc = "frame"
    /\ UpdateTargetSeenBody(CenteredDetections)
    /\ rpc' = "aim"
    /\ UNCHANGED <<now, laserVars, servoVars, pidVars, serialVars, sys_running, frame_count, in_handler, sd_log, release_calls, resume>>

StopLines == { TextLine(<<"STOP">>) }

RdStopLine == sys_running /\ RdLineFrom(StopLines)

\* time passes between two iterations of the loop
LoopTick == rpc = "loop" /\ LaserTick

\* The emitter forced off under a centred track: start-up, connect, the loop
\* with the same centred detection in every frame, the watchdog, the STOP
\* command from the operator, and the clock.
RearmNext ==
    \/ ServoInitialize
    \/ SetLimitsStep
    \/ SerialSetup
    \/ LaserInitialize
    \/ Connect
    \/ InitCenter \/ RunStart \/ RunLoop \/ RunUpdateCentered \/ RunAim \/ RunCentered
    \/ RunLaserOn \/ RunSleep
    \/ SetTargetAcquire("main") \/ SetTargetPan("main") \/ SetTargetTilt("main")
    \/ TurnOnAcquire("main") \/ TurnOnCheck("main") \/ TurnOnHigh("main")
    \/ TurnOnFlag("main") \/ TurnOnStamp("main")
    \/ WatchdogStep
    \/ RdStopLine \/ RdCbStop \/ RdStopCenter \/ RdServoDone \/ RdSend
    \/ EStopAcquire("reader") \/ EStopLow("reader") \/ EStopClear("reader")
    \/ SetTargetAcquire("reader") \/ SetTargetPan("reader") \/ SetTargetTilt("reader")
    \/ LoopTick

\* ---- a target set once and held, then the servo centred
\* the (pan, tilt) the servo is sent to: five degrees on each axis
HeldTargets == { <<Deg(5), Deg(5)>> }

\* servo.set_target_position(pan, tilt), once
HoldTarget ==
    /\ set_calls = 0
    /\ \E a \in HeldTargets : MainSetTarget(a, FALSE)
    /\ UNCHANGED <<now, laserVars, trackerVars, pidVars, orchVars, serialVars>>

\* shutdown(): self.servo.center_servos(), after any number of ticks
HoldCenter ==
    /\ set_calls = 1
    /\ MainSetTarget(<<0, 0>>, TRUE)
    /\ UNCHANGED <<now, laserVars, trackerVars, pidVars, orchVars, serialVars>>

HoldCallStep == SetTargetAcquire("main") \/ SetTargetPan("main") \/ SetTargetTilt("main")

\* a tick of the control loop while the target is held
HeldTick == set_calls > 0 /\ spc["main"] = "idle" /\ CtlTick

\* The servo following a held target: start-up, one target, later the
\* centre, and the control loop ticking every 20 ms.
ConvergeNext ==
    \/ ServoInitialize
    \/ SetLimitsStep
    \/ SerialSetup
    \/ HoldTarget
    \/ HoldCenter
    \/ HoldCallStep
    \/ HeldTick

\* what the operator sends while the loop runs
WriterLines ==
    { TextLine(<<"SERVO", " ", "45", " ", "30">>), TextLine(<<"LASER", " ", "on">>),
      TextLine(<<"LASER", " ", "off">>), TextLine(<<"STOP">>) }

RdWriterLine == sys_running /\ RdLineFrom(WriterLines)

\* The loop and the operator: start-up, connect, the main loop frame by
\* frame, and the reader thread dispatching the operator's commands.
WritersNext ==
    \/ ServoInitialize
    \/ SetLimitsStep
    \/ SerialSetup
    \/ LaserInitialize
    \/ Connect
    \/ RunStep
    \/ MainCallStep
    \/ RdWriterLine
    \/ RdCbServo \/ RdServoDone \/ RdCbLaser \/ RdLaserDone \/ RdCbStop \/ RdStopCenter
    \/ RdSend
    \/ ReaderCallStep

\* the steps of the main thread: initialize(), run(), shutdown() and the
\* controller calls they make (with so few frames and no time passing
\* between them, turn_off never finds the emitter on)
SignalFrames == 2       \* frames processed by run() in a behaviour with signals

SignalRunLoop == frame_count < SignalFrames /\ RunLoop

\* join(timeout=1.0) in release(): time passes while the main thread waits
JoinTick == releasing /\ LaserTick

MainThreadStep ==
    \/ InitCenter \/ RunStart \/ SignalRunLoop \/ RunUpdate \/ RunAim \/ RunCentered
    \/ RunLaserOn \/ RunLaserOff \/ RunSleep
    \/ SetTargetAcquire("main") \/ SetTargetPan("main") \/ SetTargetTilt("main")
    \/ TurnOnAcquire("main") \/ TurnOnCheck("main") \/ TurnOnHigh("main")
    \/ TurnOnFlag("main") \/ TurnOnStamp("main")
    \/ TurnOffAcquire("main") \/ TurnOffCheck("main")
    \/ RunExit \/ ShutdownStep
    \/ EStopAcquire("main") \/ EStopLow("main") \/ EStopClear("main")
    \/ ReleaseJoin \/ ReleaseCleanup \/ ReleaseFlag

\* the watchdog while the emitter is within its timeout
WatchdogRound == WdLoop \/ WdAcquire \/ WdCheck \/ WdWake

\* Signals: start-up, the main loop, a signal delivered at any point of an
\* iteration, shutdown() as the handler and from the finally clause, the
\* watchdog and the clock.
SignalNext ==
    \/ ServoInitialize
    \/ SetLimitsStep
    \/ SerialSetup
    \/ LaserInitialize
    \/ MainThreadStep
    \/ Signal
    \/ SignalInCall
    \/ WatchdogRound
    \/ JoinTick

Init == now = 1 /\ LaserInit /\ ServoInit /\ TrackerInit /\ PidInit /\ OrchInit /\ SerialInit

\* The emitter with its watchdog running: initialize, the three commands
\* from both threads, the watchdog and the clock.
SpecLaser == Init /\ [][LaserNext]_vars

\* The same under the scheduling the watchdog relies on: time passes, the
\* watchdog thread runs, and a thread inside a call finishes it.
FairSpecLaser ==
    /\ SpecLaser
    /\ SF_vars(LaserTick)
    /\ SF_vars(WatchdogStep)
    /\ \A t \in Threads : WF_vars(LaserCallStep(t))

\* ... with release() at shutdown
LaserLifeNext == LaserNext \/ ReleaseStep

SpecLaserLife == Init /\ [][LaserLifeNext]_vars

\* The servo controller: start-up, target requests and position reads from
\* both threads, the control loop, and PWM writes that may fail.
\* Both periodic loops with hardware writes that may raise: the emitter with
\* its callers and watchdog, and the servo control loop on its own.
FaultNext ==
    \/ LaserNext
    \/ LaserFault
    \/ ServoInitialize
    \/ ControlStep
    \/ CtlPwmFault

SpecFault == Init /\ [][FaultNext]_vars

\* The tracker fed frame by frame, with any time between frames.
SpecTracker == Init /\ [][TrackerNext]_vars

\* The tracker with its frame size set and its servo angles asked for.
SpecAngles == Init /\ [][AnglesNext]_vars

\* A PIDController called in any order, with any of the errors, at any clock.
SpecPid == Init /\ [][PidNext]_vars

\* Two scenarios: a PIDController exercised on its own while no servo is
\* started, or the servo started with its limits set, centred by the main
\* thread and ticking while that controller is left alone.
PidUntouched == pid_updates = 0 /\ pid_ret.op = "none" /\ pid_now = TickMs

LonePidUpdate == boot = "new" /\ PidUpdateCall

LonePidReset == boot = "new" /\ PidResetCall

LonePidClockAdvance == boot = "new" /\ PidClockAdvance

LonePidClockSetBack == boot = "new" /\ PidClockSetBack

ServoStartAlone == PidUntouched /\ ServoInitialize

PidTickNext ==
    \/ LonePidUpdate \/ LonePidReset \/ LonePidClockAdvance \/ LonePidClockSetBack
    \/ ServoStartAlone
    \/ SetLimitsStep
    \/ SerialSetup
    \/ CenterCall("main")
    \/ SetTargetAcquire("main") \/ SetTargetPan("main") \/ SetTargetTilt("main")
    \/ ControlStep

SpecPidTick == Init /\ [][PidTickNext]_vars

SpecServo == Init /\ [][ServoNext]_vars

SpecRun == Init /\ [][RunNext]_vars

SpecShutdown == Init /\ [][ShutdownNext]_vars

SpecWriters == Init /\ [][WritersNext]_vars

SpecFrames == Init /\ [][FramesNext]_vars

SpecRearm == Init /\ [][RearmNext]_vars

SpecConverge == Init /\ [][ConvergeNext]_vars

\* The same with the control loop ticking on for ever (its while loop and its
\* sleep of 20 ms) and every call of the main thread running to its end.
FairSpecConverge ==
    SpecConverge /\ WF_vars(HeldTick) /\ WF_vars(HoldCallStep)

SpecSignal == Init /\ [][SignalNext]_vars

\* ... under the scheduling the claim assumes: the main thread and the
\* watchdog thread run whenever they can take a step, and time passes
FairSpecSignal ==
    /\ SpecSignal
    /\ WF_vars(MainThreadStep)
    /\ WF_vars(WatchdogRound)
    /\ SF_vars(JoinTick)

SpecCommands == Init /\ [][CommandsNext]_vars

SpecStatus == Init /\ [][StatusNext]_vars

SpecSerial == Init /\ [][SerialNext]_vars

\* The channel while the device stays attached, under the scheduling the
\* claim assumes: the writer thread runs whenever it can take a step.
FairSpecChannel == Init /\ [][ChannelNext]_vars /\ WF_vars(WriterStep)

(***************************************************************************)
(*                     Properties of the emitter                           *)
(***************************************************************************)
\* What is_laser_on() can observe: the state between critical sections.
EmitterOn == is_on \/ pin = HIGH

\* C1 -- Emitter safety bound: whenever the emitter lock is free (the states
\* is_on() reports), an emitter that is on (flag set or pin high) was turned
\* on at most safety_timeout plus one watchdog period ago.
C1_EmitterSafetyBound ==
    (LockFree /\ EmitterOn) => (now - last_on_time <= SafetyTimeout + WatchdogPeriod)

\* the bound is reached: on for exactly safety_timeout + one period
C1_Witness ==
    /\ LockFree /\ is_on /\ pin = HIGH
    /\ now - last_on_time = SafetyTimeout + WatchdogPeriod

\* C2 -- Watchdog liveness: an emitter that is on (early enough for the
\* model's clock to run past the timeout) is eventually off with the pin
\* low, in every fair behaviour, including those with no turn_off and no
\* emergency_stop after the turn_on.
C2_WatchdogLiveness ==
    (is_on /\ now + SafetyTimeout + WatchdogPeriod <= MaxTime) ~> (~is_on /\ pin = LOW)

\* the watchdog has found the timeout exceeded and is forcing the emitter off
C2_Witness ==
    /\ wd_pc = "clear" /\ is_on /\ pin = LOW
    /\ now - last_on_time > SafetyTimeout
    /\ \A t \in Threads : lpc[t] = "idle"

\* C4 -- emergency_stop forces the emitter off: when it returns, is_on is
\* false and the pin is low, whatever the state it was called in; and the
\* watchdog holds the lock only inside its check, never while it sleeps, so
\* emergency_stop never waits for a sleep period.
EStopReturns(t) == lpc[t] = "es_clear" /\ lpc'[t] # "es_clear"

WatchdogHoldsLockOnlyInCheck == (laser_lock = "wd") <=> (wd_pc \in {"check", "low", "clear"})

C4_EmergencyStopForcesOff ==
    /\ [](WatchdogHoldsLockOnlyInCheck)
    /\ [][\A t \in Threads : EStopReturns(t) => (~is_on' /\ pin' = LOW /\ laser_lock' = "none")]_vars

\* emergency_stop acting on an emitter that is on while the watchdog has
\* already been stopped by release()
C4_Witness ==
    \E t \in Threads : lpc[t] = "es_clear" /\ is_on /\ pin = LOW /\ wd_pc = "done"

\* C5 -- turn_on on an emitter that is already on changes nothing (is_on,
\* pin, last_on_time as they were when the lock was taken); on an emitter
\* that is off it sets the pin high, is_on, and last_on_time = now.
\* turn_off likewise: nothing when off; pin low and is_on false when on,
\* last_on_time untouched.
TurnOnReturns(t) == lpc[t] \in {"on_check", "on_stamp"} /\ lpc'[t] = "idle"

TurnOffReturns(t) == lpc[t] \in {"off_check", "off_clear"} /\ lpc'[t] = "idle"

C5_TurnOnOffNoOp ==
    [][\A t \in Threads :
        /\ TurnOnReturns(t) =>
              IF entry[t][1]
                 THEN <<is_on', pin', last_on_time'>> = entry[t]
                 ELSE is_on' /\ pin' = HIGH /\ last_on_time' = now
        /\ TurnOffReturns(t) =>
              IF entry[t][1]
                 THEN ~is_on' /\ pin' = LOW /\ last_on_time' = entry[t][3]
                 ELSE <<is_on', pin', last_on_time'>> = entry[t]
      ]_vars

\* turn_on called on an emitter already on for a while, about to return
C5_Witness ==
    \E t \in Threads : lpc[t] = "on_check" /\ is_on /\ pin = HIGH /\ now > last_on_time

(***************************************************************************)
(* C3: a hardware write that raises during one tick of the servo control   *)
(* loop or of the emitter watchdog loop does not terminate that loop: as   *)
(* long as the loop's run flag is set its thread is alive, the lock is not *)
(* left held by a sleeping or dead loop, and the watchdog therefore still  *)
(* enforces the emitter bound.                                             *)
(***************************************************************************)
C3_LoopsSurviveFault ==
    /\ safety_running => wd_pc # "dead"
    /\ running => ctl_pc # "dead"
    /\ wd_pc \in {"sleep", "dead"} => laser_lock # "wd"
    /\ ctl_pc \in {"sleep", "sleep_fault"} => servo_lock # "ctl"
    /\ (LockFree /\ EmitterOn) => (now - last_on_time <= SafetyTimeout + WatchdogPeriod)

(***************************************************************************)
(* C6: when set_target_position returns, each axis of the stored target is *)
(* the point of [min, max] nearest to the requested value, under the       *)
(* limits in force at the call; a call made with the values already stored *)
(* by set_target_position leaves them unchanged; center_servos stores the  *)
(* clamp of (0, 0).                                                        *)
(***************************************************************************)
Nearest(lo, hi, v) == IF v < lo THEN lo ELSE IF v > hi THEN hi ELSE v

SetTargetReturns(t) == spc[t] = "st_tilt" /\ spc'[t] = "idle"

C6_SetTargetClamps ==
    [][\A t \in Threads : SetTargetReturns(t) =>
          /\ pan_min <= target_pan' /\ target_pan' <= pan_max
          /\ tilt_min <= target_tilt' /\ target_tilt' <= tilt_max
          /\ target_pan' = Nearest(pan_min, pan_max, arg[t][1])
          /\ target_tilt' = Nearest(tilt_min, tilt_max, arg[t][2])
          /\ (target_written /\ arg[t] = sentry[t]) =>
                 <<target_pan', target_tilt'>> = sentry[t]
          /\ via_center[t] =>
                 /\ target_pan' = Nearest(pan_min, pan_max, 0)
                 /\ target_tilt' = Nearest(tilt_min, tilt_max, 0)]_vars

\* a second call, made with the values an out-of-range request left stored,
\* has rewritten the pan axis and is about to rewrite the tilt axis
C6_Witness ==
    \E t \in Threads :
        /\ spc[t] = "st_tilt"
        /\ target_written
        /\ arg[t] = sentry[t]
        /\ sentry[t] = <<Deg(60), Deg(5)>>
        /\ target_pan = pan_max
        /\ pan_max < Deg(90)

(***************************************************************************)
(* C7: the pair get_current_position returns has both axes from the same   *)
(* completed control tick, never one axis ahead of the other; and the      *)
(* target pair a control tick reads was written, both axes, by the same    *)
(* set_target_position call.                                               *)
(***************************************************************************)
GetPosReturns(t) == spc[t] = "gp_read" /\ spc'[t] = "idle"

TickReadsTarget == ctl_pc = "compute" /\ ctl_pc' = "add_pan"

C7_SnapshotAtomicity ==
    [][/\ \A t \in Threads : GetPosReturns(t) =>
              (pan_ver = tilt_ver /\ pan_ver[2] = "final")
       /\ TickReadsTarget => tpan_by = ttilt_by]_vars

\* a reader holds the lock on a position a tick has moved, while the control
\* thread waits for the lock and a set_target_position call is queued behind
C7_Witness ==
    /\ spc["reader"] = "gp_read"
    /\ pan_ver = <<1, "final">>
    /\ current_pan # 0
    /\ ctl_pc = "wait"
    /\ spc["main"] = "st_wait"


(***************************************************************************)
(* C8: an update_target call without detections, made while a track is     *)
(* held and no later than max_lost_time after the lost timer started (or   *)
(* starting it), returns the track held before and leaves the track and    *)
(* position_history as they were; update_target drops a track only in a    *)
(* call without detections made more than max_lost_time after the timer    *)
(* started; and a call with detections made while the timer runs finds the *)
(* track still held and continues it with the detection nearest to it.     *)
(***************************************************************************)
\* the steps that are update_target calls
EmptyCall == now' = now /\ last_call' = now /\ last_seen' = last_seen /\ detections' = <<>>

SeenCall == now' = now /\ last_seen' = now /\ detections' # <<>>

WithinGrace == target_lost_time = 0 \/ now - target_lost_time <= max_lost_time

C8_HeldThroughOcclusion ==
    [][/\ (EmptyCall /\ current_target # None /\ WithinGrace) =>
              /\ returned' = current_target
              /\ current_target' = current_target
              /\ position_history' = position_history
       /\ (current_target # None /\ current_target' = None) =>
              \/ TrackerReset
              \/ /\ EmptyCall
                 /\ target_lost_time # 0
                 /\ now - target_lost_time > max_lost_time
                 /\ now - last_seen > max_lost_time
       /\ (SeenCall /\ target_lost_time # 0) =>
              /\ current_target # None
              /\ \A i \in DOMAIN detections' :
                     distance2(center(current_target'), center(current_target))
                         <= distance2(center(detections'[i]), center(current_target))]_vars

\* a call without detections has just returned the held track at the very
\* end of the grace period
C8_Witness ==
    /\ current_target # None
    /\ returned = current_target
    /\ detections = <<>>
    /\ last_call = now
    /\ target_lost_time # 0
    /\ now - target_lost_time = max_lost_time

(***************************************************************************)
(* C9 as stated: after any update_target call without detections made more *)
(* than max_lost_time after the last call that had detections, the track   *)
(* is None, position_history is empty and the lost timer is cleared.       *)
(***************************************************************************)
TrackCleared == current_target = None /\ position_history = <<>> /\ target_lost_time = 0

C9_ClearedAfterDetectionGap ==
    [][(EmptyCall /\ now - last_seen > max_lost_time) => TrackCleared']_vars

(***************************************************************************)
(* C9 amended: the lost timer starts at the first update_target call       *)
(* without detections that finds a track held, and any call without        *)
(* detections made more than max_lost_time after the timer started leaves  *)
(* the track None, position_history empty and the timer cleared, and       *)
(* returns None; with no track held the tracker is always in that state.   *)
(***************************************************************************)
C9_ClearedAfterTimerExpiry ==
    /\ [](current_target = None => TrackCleared)
    /\ [][/\ (EmptyCall /\ current_target # None /\ target_lost_time = 0) =>
                 target_lost_time' = now
          /\ (EmptyCall /\ target_lost_time # 0
                /\ now - target_lost_time > max_lost_time) =>
                 (TrackCleared' /\ returned' = None)]_vars

\* a call without detections has just dropped, on the timeout, a track that
\* an earlier frame had acquired
C9_Witness ==
    /\ TrackCleared
    /\ returned = None
    /\ detections = <<>>
    /\ last_call = now
    /\ last_seen # 0
    /\ now - last_seen > max_lost_time + 1

(***************************************************************************)
(* C10: an update_target call with detections that finds no track held     *)
(* makes the track the detection of greatest area, the earliest in the     *)
(* list among those of that area.                                          *)
(***************************************************************************)
C10_FirstAcquisitionLargest ==
    [][(SeenCall /\ current_target = None) =>
          \E i \in DOMAIN detections' :
              /\ current_target' = detections'[i]
              /\ returned' = detections'[i]
              /\ \A j \in DOMAIN detections' : area(detections'[j]) <= area(detections'[i])
              /\ \A j \in 1..(i - 1) : area(detections'[j]) < area(detections'[i])]_vars

\* the first frame offered the two largest boxes, the second box first, and
\* the second box was taken
C10_Witness ==
    /\ detections = <<2, 1>>
    /\ area(1) = area(2)
    /\ current_target = 2
    /\ returned = 2
    /\ position_history = <<center(2)>>


(***************************************************************************)
(* C11: an update_target call with detections that finds a track held      *)
(* makes the track the detection whose center is nearest to the held       *)
(* track's center, whatever the areas, the earliest in the list among      *)
(* those at that distance; it clears the lost timer and appends the chosen *)
(* center to position_history (dropping the oldest entry beyond            *)
(* history_size).                                                          *)
(***************************************************************************)
C11_NearestNeighbour ==
    [][(SeenCall /\ current_target # None) =>
          /\ target_lost_time' = 0
          /\ \E i \in DOMAIN detections' :
                LET c  == center(current_target)
                    di == distance2(center(detections'[i]), c)
                IN  /\ current_target' = detections'[i]
                    /\ returned' = detections'[i]
                    /\ \A j \in DOMAIN detections' :
                           di <= distance2(center(detections'[j]), c)
                    /\ \A j \in 1..(i - 1) : di < distance2(center(detections'[j]), c)
          /\ position_history' =
                IF Len(position_history) < history_size
                   THEN Append(position_history, center(current_target'))
                   ELSE Append(Tail(position_history), center(current_target'))]_vars

\* holding the small box in the middle, a frame offered the two large boxes,
\* both at the same distance, the second box first, and the second was taken
C11_Witness ==
    /\ detections = <<2, 1>>
    /\ current_target = 2
    /\ Len(position_history) >= 2
    /\ position_history[Len(position_history) - 1] = center(3)
    /\ distance2(center(1), center(3)) = distance2(center(2), center(3))
    /\ last_call = now


(***************************************************************************)
(* C12: what get_servo_angles returns: (0, 0) with no track; with a track, *)
(* exactly 0 on each axis whose smoothed-position error is strictly inside *)
(* the deadzone, whatever the other axis; and always a pan within          *)
(* [-max_pan, max_pan] and a tilt within [-max_tilt, max_tilt].            *)
(***************************************************************************)
\* the smoothed-position errors times the number of history entries
HistoryErrorX ==
    SumOf(position_history, 1) - Len(position_history) * (frame_width \div 2)

HistoryErrorY ==
    SumOf(position_history, 2) - Len(position_history) * (frame_height \div 2)

C12_Deadzone ==
    servo_angles.called =>
        /\ current_target = None => (servo_angles.pan = 0 /\ servo_angles.tilt = 0)
        /\ (current_target # None
              /\ Abs(HistoryErrorX) < deadzone_x * Len(position_history)) =>
               servo_angles.pan = 0
        /\ (current_target # None
              /\ Abs(HistoryErrorY) < deadzone_y * Len(position_history)) =>
               servo_angles.tilt = 0
        /\ -Deg(servo_angles.max_pan) <= servo_angles.pan
        /\ servo_angles.pan <= Deg(servo_angles.max_pan)
        /\ -Deg(servo_angles.max_tilt) <= servo_angles.tilt
        /\ servo_angles.tilt <= Deg(servo_angles.max_tilt)

\* with a track whose smoothed position is off centre on both axes, inside
\* the deadzone on x only, the call returned a zero pan and a non-zero tilt
C12_Witness ==
    /\ servo_angles.called
    /\ current_target # None
    /\ HistoryErrorX # 0
    /\ Abs(HistoryErrorX) < deadzone_x * Len(position_history)
    /\ Abs(HistoryErrorY) >= deadzone_y * Len(position_history)
    /\ servo_angles.pan = 0
    /\ servo_angles.tilt # 0


(***************************************************************************)
(* C13: a PIDController.update call made when no time has passed since the *)
(* controller's last_time, or when the clock is behind it, returns 0 and   *)
(* leaves integral, last_error and last_time as they were.                 *)
(***************************************************************************)
PidUpdateStep == pid_updates' = pid_updates + 1

C13_PidNoElapsedTime ==
    [][(PidUpdateStep /\ pid_now - pid.last_time <= 0) =>
          /\ pid_ret'.out = 0
          /\ pid'.integral = pid.integral
          /\ pid'.last_error = pid.last_error
          /\ pid'.last_time = pid.last_time]_vars

\* an update with the largest error was answered 0 by a controller that
\* carries an integral and an error from earlier calls, the clock set back
C13_Witness ==
    /\ pid_ret = [op |-> "update", error |-> Deg(180), out |-> 0]
    /\ pid_now < pid.last_time
    /\ pid.integral # 0
    /\ pid.last_error = Deg(1)


(***************************************************************************)
(* C14: every value PIDController.update returns lies within               *)
(* [-max_output, max_output], and so one control tick changes current_pan  *)
(* and current_tilt by at most max_output each.                            *)
(***************************************************************************)
Dist(v, lo, hi) == IF v < lo THEN lo - v ELSE IF v > hi THEN v - hi ELSE 0

PidReturnsBounded ==
    /\ Abs(pid_ret.out) <= Deg(max_output)
    /\ Abs(ctl_local.pan_output) <= Deg(max_output)
    /\ Abs(ctl_local.tilt_output) <= Deg(max_output)

\* the steps that end a tick's work on one axis; the value the tick started
\* from is the value before the clamp less the output added
PanClampStep == ctl_pc = "clamp_pan" /\ ctl_pc' = "clamp_tilt"

TiltClampStep == ctl_pc = "clamp_tilt" /\ ctl_pc' = "pwm"

C14_TickChangeWithinMaxOutput ==
    /\ [](PidReturnsBounded)
    /\ [][/\ PanClampStep =>
                Abs(current_pan' - (current_pan - ctl_local.pan_output)) <= Deg(max_output)
          /\ TiltClampStep =>
                Abs(current_tilt' - (current_tilt - ctl_local.tilt_output))
                    <= Deg(max_output)]_vars

(***************************************************************************)
(* What does hold of a tick: the amount it adds to current_pan and         *)
(* current_tilt is at most max_output each, and over the whole tick each   *)
(* changes by at most max_output plus the distance by which it lay outside *)
(* the limits when the tick began.                                         *)
(***************************************************************************)
TickChangeWithinMaxOutputAndClamp ==
    /\ [](PidReturnsBounded)
    /\ [][/\ (ctl_pc = "add_pan" /\ ctl_pc' = "add_tilt") =>
                Abs(current_pan' - current_pan) <= Deg(max_output)
          /\ (ctl_pc = "add_tilt" /\ ctl_pc' = "clamp_pan") =>
                Abs(current_tilt' - current_tilt) <= Deg(max_output)
          /\ PanClampStep =>
                LET start == current_pan - ctl_local.pan_output
                IN  Abs(current_pan' - start)
                        <= Deg(max_output) + Dist(start, pan_min, pan_max)
          /\ TiltClampStep =>
                LET start == current_tilt - ctl_local.tilt_output
                IN  Abs(current_tilt' - start)
                        <= Deg(max_output) + Dist(start, tilt_min, tilt_max)]_vars

(***************************************************************************)
(*                     Properties of the main loop                         *)
(***************************************************************************)
PidIsReset(c) == c.integral = 0 /\ c.last_error = 0

\* C15: whenever the main loop finds that the track it followed is lost, both
\* axis PID controllers are reset: the branch of run() taken without a track
\* leaves integral and last_error of pan_pid and tilt_pid at zero.
C15_PidResetOnTrackLoss ==
    [][ (rpc = "off_call" /\ current_target = None /\ last_seen # 0 /\ rpc' = "lasered")
        => (PidIsReset(pan_pid') /\ PidIsReset(tilt_pid')) ]_vars

(***************************************************************************)
(*                 Properties of the telemetry channel                     *)
(***************************************************************************)
\* C16: a process_command call that has returned has put exactly one RESULT
\* message on the queue if the command was in the dispatch table and its
\* callback returned normally, and none otherwise; for a command that is
\* not in the table no callback has run.
C16_OneResultIffDispatched ==
    rd_log.done =>
        /\ rd_log.results = (IF rd_log.in_table /\ rd_log.cb_ok THEN 1 ELSE 0)
        /\ ~rd_log.in_table => ~rd_log.cb_ran

\* C17: no inbound line stops the reader: it never dies of an exception,
\* a process_command call that is over (whether it returned at once, raised
\* inside or dispatched) leaves the reader at its loop, and the reader leaves
\* the loop only when running is false.
C17_ReaderSurvives ==
    /\ rd_pc # "dead"
    /\ rd_log.done => rd_pc \in {"off", "loop", "done"}
    /\ rd_pc = "done" => ~ser_running

\* a callback has raised, and the reader is back at its loop with running true
C17_Witness ==
    /\ rd_log.raised
    /\ rd_log.cb_ran
    /\ rd_pc = "loop"
    /\ ser_running
    /\ lines_read < MaxLines

\* what process_command makes of a line as read_loop hands it over
ParsedAs(raw) ==
    LET pr == Parse(StripLine(raw)) IN [command |-> pr.command, params |-> pr.params]

\* the callback is about to run on the plain-text encoding of (c, a) with the
\* command and the params that the JSON encoding of (c, a) gives
EncodingsAgree(c, a) ==
    (rd_pc = "cb" /\ rd_line = PlainEncoding(c, a)) => rd_cmd = ParsedAs(JsonEncoding(c, a))

\* 'SERVO 45 30' in either encoding: the same payload, and the target left at
\* pan 45, tilt 30, clamped to the limits
ServoExample ==
    (/\ rd_pc = "send"
     /\ rd_line \in { PlainEncoding(<<"SERVO">>, <<"45", " ", "30">>),
                      JsonEncoding(<<"SERVO">>, <<"45", " ", "30">>) })
    => /\ rd_result = R("Moving to", 45, 30)
       /\ target_pan = Clamp(pan_min, pan_max, Deg(45))
       /\ target_tilt = Clamp(tilt_min, tilt_max, Deg(30))

\* C18 as stated: the plain-text and the JSON encoding of a command are
\* equivalent for every registered command name and every argument string.
C18_EncodingsEquivalent ==
    /\ \A c \in Registered, a \in ArgStrings : EncodingsAgree(c, a)
    /\ ServoExample

\* C18: the plain-text and the JSON encoding of a command give the callback
\* the same command and params, for every registered command name and every
\* argument string that does not end in whitespace (read_loop strips the
\* line); 'SERVO 45 30' in either encoding answers "Moving to 45, 30" and
\* leaves the target at pan 45, tilt 30, clamped to the limits.
C18_EncodingsEquivalentUnlessTrailingBlank ==
    /\ \A c \in Registered, a \in ArgStrings : RStrip(a) = a => EncodingsAgree(c, a)
    /\ ServoExample

\* the plain-text 'SERVO 45 30' has set the target and is about to answer
C18_Witness ==
    /\ rd_pc = "send"
    /\ rd_line = PlainEncoding(<<"SERVO">>, <<"45", " ", "30">>)
    /\ tpan_by # 0
    /\ target_pan = Deg(45)

\* the messages on the stream appear in the order they were enqueued, none
\* twice, and each of them was enqueued
WireInOrder ==
    /\ \A i, j \in DOMAIN wire : i < j => wire[i].id < wire[j].id
    /\ \A i \in DOMAIN wire : wire[i].id \in 1..accepted

\* message k has been written and flushed
Flushed(k) == \E i \in 1..flushed : wire[i].id = k

\* C19: the stream carries the messages in exactly the order send_message
\* enqueued them, each at most once, whether they come from the main thread
\* (STATUS) or the reader (RESULT); and while the channel stays in service
\* every enqueued message is eventually written and flushed.
C19_OutboundFifo ==
    /\ []WireInOrder
    /\ \A k \in 1..(MaxLines + MaxStatus) :
          (accepted >= k) ~> (Flushed(k) \/ ~ser_running)

\* a STATUS and a RESULT message have both been written and flushed
C19_Witness ==
    /\ flushed = Len(wire)
    /\ \E i, j \in DOMAIN wire : wire[i].type = "STATUS" /\ wire[j].type = "RESULT"
    /\ ser_running

(***************************************************************************)
(*                     Properties of shutdown                              *)
(***************************************************************************)
ShutdownInOrder == sd_log = SubSeq(ShutdownOrder, 1, Len(sd_log))

TeardownSteps == {"center", "wait", "servo_release", "camera", "disconnect"}

TeardownStepBegins == sd_log' # sd_log /\ sd_log' # <<>> /\ sd_log'[Len(sd_log')] \in TeardownSteps

\* C20: every execution of shutdown() takes its steps in the order flag,
\* emitter forced off, emitter released, servo centred, wait, servo released,
\* camera released, telemetry disconnected; and whenever a servo, camera or
\* telemetry step begins the emitter is off (is_on false and the pin low).
C20_ShutdownOrder ==
    /\ []ShutdownInOrder
    /\ [][TeardownStepBegins => (~is_on /\ pin = LOW)]_vars

(***************************************************************************)
(*                 Properties of shutdown and of signals                   *)
(***************************************************************************)
\* C21: in every execution that shuts down, ServoController.release and
\* LaserController.release are each executed exactly once, also when the
\* signal handler ran shutdown() first and run() then leaves its loop
\* through the finally clause: neither is ever entered a second time, and
\* once run() has returned each has been entered.
C21_ReleasedExactlyOnce ==
    /\ release_calls.servo <= 1
    /\ release_calls.laser <= 1
    /\ rpc = "exited" => (release_calls.servo = 1 /\ release_calls.laser = 1)

(***************************************************************************)
(*                 Properties of the orchestrator's loop                   *)
(***************************************************************************)
MainBeginsTurnOn == lpc["main"] = "idle" /\ lpc'["main"] = "on_wait"

MainBeginsTurnOff == lpc["main"] = "idle" /\ lpc'["main"] = "off_wait"

MainBeginsSetTarget == spc["main"] = "idle" /\ spc'["main"] = "st_wait"

IterationEnds == rpc = "lasered" /\ lpc["main"] = "idle"

\* what an iteration of the loop does once update_target has returned
EmitterRule ==
    /\ (rpc = "frame" /\ rpc' # "frame" /\ current_target' = None) => rpc' = "off_call"
    /\ (rpc = "frame" /\ rpc' # "frame" /\ current_target' # None) => rpc' = "aim"
    /\ (rpc = "aim" /\ rpc' # "aim") =>
           /\ MainBeginsSetTarget
           /\ arg'["main"] = GetServoAnglesResult(None, 90, 45)
           /\ rpc' = "aimed"
    /\ (rpc = "aimed" /\ rpc' # "aimed") =>
           rpc' = IF IsTargetCentered THEN "on_call" ELSE "off_call"
    /\ (rpc = "on_call" /\ rpc' # "on_call") => MainBeginsTurnOn
    /\ (rpc = "off_call" /\ rpc' # "off_call") => MainBeginsTurnOff
    /\ MainBeginsTurnOn => (rpc = "on_call" /\ current_target # None /\ IsTargetCentered)
    /\ MainBeginsTurnOff => (rpc = "off_call" /\ (current_target = None \/ ~IsTargetCentered))

\* C22: in every iteration of the loop that has a frame, turn_off is called
\* if update_target returned no track; if it returned one,
\* set_target_position is called with the result of get_servo_angles and
\* then turn_on is called if is_target_centered() and turn_off otherwise.
\* So, with no telemetry command, at the end of the iteration the emitter is
\* on only if there is a track and it is centred.
C22_EmitterRule ==
    /\ [][EmitterRule]_vars
    /\ [](IterationEnds /\ is_on => (current_target # None /\ IsTargetCentered))

\* an iteration has ended with the emitter on and centred, and a later one
\* ends with the emitter off
C22_Witness ==
    /\ IterationEnds
    /\ ~is_on
    /\ last_on_time > 0
    /\ frame_count >= 1

\* the thread is inside set_target_position, turn_on, turn_off or
\* emergency_stop
WritesIntent(t) == spc[t] \in {"st_wait", "st_pan", "st_tilt"} \/ lpc[t] # "idle"

\* C23: while the orchestrator's loop is running, no other thread, and in
\* particular not the telemetry reader dispatching SERVO, LASER or STOP,
\* calls set_target_position, turn_on, turn_off or emergency_stop.
C23_OrchestratorSoleWriter == sys_running => ~WritesIntent("reader")

\* emergency_stop() of the running shutdown() has returned
EmitterForcedOff == Len(sd_log) >= 3

\* C24: if SIGINT or SIGTERM is delivered at any point of the loop, also
\* while the main thread is inside turn_on, turn_off or set_target_position
\* and holds that controller's lock, the shutdown routine running as the
\* handler on the same thread eventually forces the emitter off and runs to
\* completion (as long as the clock of the model can advance).
C24_SignalShutdownCompletes ==
    /\ in_handler ~> (EmitterForcedOff \/ ~in_handler)
    /\ in_handler ~> (~in_handler \/ now = MaxTime)

\* LaserController.release() has been called and has returned
LaserReleased == release_calls.laser >= 1 /\ ~releasing

\* C25: once LaserController.release() has returned the emitter is off and
\* stays off; no turn_on running concurrently with release() or issued
\* after it (a LASER on command of the telemetry channel, which is
\* disconnected last) leaves is_on true when the watchdog has been stopped.
C25_OffAfterRelease == LaserReleased => ~is_on

(***************************************************************************)
(*                 Properties of the servo limits                          *)
(***************************************************************************)
\* a control tick completes: both duty cycles written, the lock released
TickCompletes == ctl_pc = "pwm" /\ ctl_pc' = "sleep"

CurrentWithinLimits ==
    /\ pan_min <= current_pan /\ current_pan <= pan_max
    /\ tilt_min <= current_tilt /\ current_tilt <= tilt_max

PushedWithinLimits ==
    /\ AngleToDuty(pan_min) <= pwm_pan /\ pwm_pan <= AngleToDuty(pan_max)
    /\ AngleToDuty(tilt_min) <= pwm_tilt /\ pwm_tilt <= AngleToDuty(tilt_max)

\* C26: after every completed control tick current_pan is within
\* [pan_min, pan_max] and current_tilt within [tilt_min, tilt_max], so that
\* the angle the tick pushed to the hardware is within the configured
\* limits, whatever the target and the state of the PID controllers.
C26_TickWithinLimits ==
    [][TickCompletes => (CurrentWithinLimits /\ PushedWithinLimits)']_vars

TargetWithinLimits ==
    /\ pan_min <= target_pan /\ target_pan <= pan_max
    /\ tilt_min <= target_tilt /\ target_tilt <= tilt_max

\* set_limits has stored some of the four limits and not yet the others
LimitsHalfUpdated == spc["main"] \in {"sl_pan_max", "sl_tilt_min", "sl_tilt_max"}

\* a control tick or a set_target_position call reads limits to clamp with
ReadsLimits ==
    \/ ctl_pc \in {"clamp_pan", "clamp_tilt"} /\ ctl_pc' # ctl_pc
    \/ \E t \in Threads : spc[t] \in {"st_pan", "st_tilt"} /\ spc'[t] # spc[t]

\* C27: in every reachable state the stored target and the current angles
\* lie within the limits configured at that moment, also right after
\* set_limits has narrowed them; and a control tick or a
\* set_target_position call running concurrently with set_limits never
\* reads a half-updated set of limits.
C27_LimitsInvariant ==
    /\ [](TargetWithinLimits /\ CurrentWithinLimits)
    /\ [][ReadsLimits => ~LimitsHalfUpdated]_vars

(***************************************************************************)
(*                 Properties of the tracker's state                       *)
(***************************************************************************)
\* the sum of component k of the entries i..Len(h) of h
RECURSIVE TotalFrom(_, _, _)
TotalFrom(h, i, k) == IF i > Len(h) THEN 0 ELSE h[i][k] + TotalFrom(h, i + 1, k)

\* a call has appended the center c to the history h
AppendedFifo(h, c) ==
    IF Len(h) < history_size
       THEN position_history' = h \o <<c>>
       ELSE /\ Len(position_history') = history_size
            /\ \A i \in 1..(history_size - 1) : position_history'[i] = h[i + 1]
            /\ position_history'[history_size] = c
            /\ popped' = h[1]

\* the smoothed position [x, y, n], that is (x / n, y / n), is the mean of
\* the entries held, or the frame center
SmoothedIsMean ==
    LET sp == GetSmoothedPosition
        n  == Len(position_history)
    IN  IF n = 0
           THEN sp.x = sp.n * (frame_width \div 2) /\ sp.y = sp.n * (frame_height \div 2)
           ELSE /\ sp.x * n = sp.n * TotalFrom(position_history, 1, 1)
                /\ sp.y * n = sp.n * TotalFrom(position_history, 1, 2)

\* the newest entry held is the center of the track
NewestIsTrack ==
    current_target # None =>
        /\ position_history # <<>>
        /\ position_history[Len(position_history)] = center(current_target)

\* C28: the position history is a bounded FIFO.  After any sequence of
\* update_target and reset calls it holds at most history_size (5) entries;
\* a center appended to a full history evicts exactly the oldest entry and
\* keeps the order of the others; and the smoothed position is the
\* componentwise mean of exactly the entries held (the frame center when
\* there is none).
C28_HistoryBoundedFifo ==
    /\ [](Len(position_history) <= history_size /\ SmoothedIsMean /\ NewestIsTrack)
    /\ [][ position_history' # position_history =>
              \/ position_history' = <<>>
              \/ AppendedFifo(position_history, center(current_target')) ]_vars

\* a full history has just lost its oldest entry to a different center
C28_Witness ==
    /\ Len(position_history) = history_size
    /\ popped # <<>>
    /\ popped # position_history[history_size]
    /\ position_history[1] # position_history[2]

\* the three states of the tracker
TrackerEmpty == current_target = None /\ position_history = <<>> /\ target_lost_time = 0

TrackerAcquired == current_target # None /\ position_history # <<>> /\ target_lost_time = 0

TrackerLost == current_target # None /\ position_history # <<>> /\ target_lost_time # 0

\* C29: after any sequence of update_target and reset calls, current_target
\* is None exactly when position_history is empty, and the lost timer is
\* set only while a track is held: the tracker is Empty (no track, no
\* history, no timer), Acquired (track, history, no timer) or Lost (track,
\* history, timer).
C29_TrackerStateConsistent ==
    /\ (current_target = None <=> position_history = <<>>)
    /\ (target_lost_time # 0 => current_target # None)
    /\ (TrackerEmpty \/ TrackerAcquired \/ TrackerLost)

\* the tracker is Lost, holding a track acquired over several frames
C29_Witness == TrackerLost /\ Len(position_history) >= 2 /\ detections = <<>>

(***************************************************************************)
(*                 The emitter's flag and its pin                          *)
(***************************************************************************)
\* C30: whenever the emitter's lock is not held, the level of the hardware
\* output equals is_on (high exactly when is_on is true); none of turn_on,
\* turn_off, emergency_stop, the watchdog's force-off and release, not even
\* one whose hardware write raises, leaves the pin high with is_on false.
C30_FlagMatchesPin == LockFree => ((pin = HIGH) <=> is_on)

\* C31: a STATUS command executed by the reader while the orchestrator calls
\* update_target always completes with a RESULT, and every field of the
\* tracker snapshot it reports was read from one and the same tracker state.
SnapshotTaken == rd_log.done /\ rd_log.cb_ran /\ rd_snap.reads > 0

SnapshotFromOneState == rd_snap.same

C31_StatusSnapshot == SnapshotTaken => rd_log.results = 1 /\ SnapshotFromOneState

\* C32: an iteration of the loop in which capture_frame returns None changes
\* nothing: the track, the lost timer, the history, the servo target, the
\* emitter and frame_count stay as they were and no status message is sent;
\* an emitter that was on is still on when the iteration ends.
NoFrameIteration ==
    \/ rpc = "frame" /\ rpc' = "backoff"
    \/ rpc = "backoff" /\ rpc' = "loop"

C32_NoFrameChangesNothing ==
    [][NoFrameIteration =>
          UNCHANGED <<current_target, target_lost_time, position_history, target_pan, target_tilt,
                      is_on, pin, last_on_time, frame_count, status_sent, write_queue, accepted>>]_vars

C32_Witness == rpc = "backoff" /\ is_on /\ pin = HIGH /\ frame_count > 0 /\ current_target # None

\* C33: processing the STOP command emergency-stops the emitter, sets the
\* servo target to the centre and resets the tracker: when the command has
\* been processed the emitter is off, the target is the centre (0, 0) as the
\* limits admit it, and the tracker has no track, no lost timer and an empty
\* position history.
StopProcessed == rd_pc = "send" /\ rd_cmd.command.s = << "STOP" >> /\ rd_pc' = "loop"

C33_StopResetsTracker ==
    [][StopProcessed =>
          /\ ~is_on' /\ pin' = LOW
          /\ target_pan' = Clamp(pan_min, pan_max, 0) /\ target_tilt' = Clamp(tilt_min, tilt_max, 0)
          /\ current_target' = None /\ target_lost_time' = 0 /\ position_history' = <<>>]_vars

\* C34: a forced-off emitter is not latched.  With a centred track in every
\* frame the orchestrator never calls turn_off, so the emitter goes off only
\* by the watchdog or by the emergency stop of a STOP command; the next
\* turn_on of the loop finds it off, switches it on again and restarts the
\* safety window at the current time; every turn_on returns with the emitter
\* on; and each on-interval, not their sum, is bounded by the safety timeout
\* plus one watchdog period.
MainTurnOnReturns == lpc["main"] \in {"on_check", "on_stamp"} /\ lpc'["main"] = "idle"

MainLeavesCheck == lpc["main"] = "on_check" /\ lpc'["main"] # "on_check"

MainRearms == lpc["main"] = "on_check" /\ lpc'["main"] = "on_high"

MainRestartsWindow == lpc["main"] = "on_stamp" /\ lpc'["main"] = "idle"

OnIntervalBounded == (LockFree /\ is_on) => now - last_on_time <= SafetyTimeout + WatchdogPeriod

C34_ForcedOffNotLatched ==
    /\ []OnIntervalBounded
    /\ [][/\ (MainLeavesCheck /\ ~is_on) => MainRearms
          /\ MainTurnOnReturns => (is_on' /\ pin' = HIGH)
          /\ MainRestartsWindow => last_on_time' = now]_vars

\* the loop, in a later frame, has found the emitter off and switched it on
\* again, after the watchdog ended the window of an earlier frame
C34_Witness ==
    /\ frame_count > 0
    /\ lpc["main"] = "on_stamp"
    /\ is_on /\ pin = HIGH
    /\ lines_read = 0
    /\ now - last_on_time > SafetyTimeout

\* C35: during the Lost grace period (a frame without detections, the track
\* still held) the loop treats the held track as present.  update_target
\* returns the track and leaves it and the history as they were; the loop
\* calls set_target_position with the angles of the unchanged smoothed
\* position and turn_on if that position is centred.  A track is held by a
\* frame without detections only if that frame came within max_lost_time of
\* the loss, so the emitter can be on without a detection for max_lost_time
\* plus the time until the next frame without detections.
InGrace == detections = <<>> /\ current_target # None

HeldWithinGrace ==
    InGrace => (target_lost_time # 0 /\ last_call - target_lost_time <= max_lost_time)

GraceUpdate == rpc = "frame" /\ rpc' # "frame" /\ detections' = <<>> /\ current_target # None

GraceRule ==
    /\ (GraceUpdate /\ current_target' # None) =>
          /\ rpc' = "aim"
          /\ current_target' = current_target
          /\ position_history' = position_history
    /\ (InGrace /\ rpc = "aim" /\ rpc' = "aimed") =>
          /\ spc'["main"] = "st_wait"
          /\ arg'["main"] = GetServoAnglesResult(None, 90, 45)
    /\ (InGrace /\ rpc = "aimed" /\ rpc' # "aimed" /\ IsTargetCentered) => rpc' = "on_call"
    /\ (InGrace /\ rpc = "on_call" /\ rpc' = "lasered") => lpc'["main"] = "on_wait"

C35_HeldTrackAimedAndLit == []HeldWithinGrace /\ [][GraceRule]_vars

\* the emitter on at the end of an iteration whose frame had no detection,
\* and still on more than max_lost_time after the loss
C35_Witness ==
    /\ InGrace
    /\ is_on /\ pin = HIGH
    /\ rpc = "loop"
    /\ now - target_lost_time > max_lost_time
    /\ now > last_call

\* C36: with the target held at a value within the limits and the control
\* loop ticking every 20 ms with the default gains, on each axis the current
\* angle eventually comes within a small tolerance of the target and stays
\* there; so does the servo after it has been centred.
ConvergeTolerance == Deg(1)

NearTarget ==
    /\ Abs(target_pan - current_pan) <= ConvergeTolerance
    /\ Abs(target_tilt - current_tilt) <= ConvergeTolerance

C36_ServoConverges == <>[]NearTarget

====
